---------------------------- MODULE Spec2Model ----------------------------
(***************************************************************************)
(* The paper-trading ledger of CTTraderbot: TradingJournal and             *)
(* VirtualTrader (src/trading_journal.py) and the ledger arithmetic of the *)
(* web app (src/app.py).                                                   *)
(*                                                                         *)
(* Units.  The code computes with Python floats; the model keeps every     *)
(* quantity as an exact integer in the smallest unit that occurs:          *)
(*   price      in 1e-6      (1.1000 is 1100000)                           *)
(*   lot_size   in 1e-3 lots (0.01 is 10)                                  *)
(*   pips       in tenths    (50.0 is 500)                                 *)
(*   pnl, balance in cents   (5.00 is 500, 10000 is 1000000)               *)
(* round(x, n) is RoundDiv: the nearest multiple, a decimal tie going to   *)
(* the even neighbour.  On a decimal tie the float result depends on the   *)
(* binary representation error of x (round(0.15, 1) is 0.1), so Prices and *)
(* Lots are a grid on which no tie occurs; on that grid RoundDiv is the    *)
(* value CPython computes.                                                 *)
(*                                                                         *)
(* A trade keeps the fields the ledger logic reads or writes; entry_time,  *)
(* exit_time, signal_info and notes are written once and never read.       *)
(***************************************************************************)
EXTENDS Integers, Sequences, FiniteSets, TLC

\* ------------------------------------------------------------ bounds
\* Spec opens a trade only while trade_counter <= MaxLedger
MaxLedger == 3
\* SpecTrader, while trade_counter <= MaxTrades
MaxTrades == 4
\* SpecNumeric, with the full price and lot grid, while trade_counter <= MaxNumeric
MaxNumeric == 2
\* SpecCrash, while trade_counter <= MaxCrashTrades
MaxCrashTrades == 2
\* SpecCrash constructs the TradingJournal at most MaxStarts times
MaxStarts == 2
\* SpecStats, while trade_counter <= MaxStats
MaxStats == 5
\* SpecShared, while trade_counter <= MaxShared
MaxShared == 3
\* SpecApp serves at most MaxRequests open and close requests
MaxRequests == 3
\* SpecSignals runs at most MaxSignalCycles analysis cycles
MaxSignalCycles == 1
\* SpecNotify runs at most MaxNotifyCycles analysis cycles
MaxNotifyCycles == 3
\* SpecBot runs at most MaxCycles analysis cycles
MaxCycles == 2
\* SpecAnalyzer gives get_candle_patterns series of at most MaxBars bars
MaxBars == 4
\* and calculate_rsi series of at most MaxCloses closes
MaxCloses == 4
\* and find_support_resistance series of at most MaxSeries closes
MaxSeries == 43

\* ------------------------------------------------- program constants
INITIAL_BALANCE == 1000000
DEFAULT_LOT == 10
PIP_FACTOR == 10000
ID_WIDTH == 4

\* ---------------------------------------------------- input domains
PriceScale == 10^6
Pairs == {"EUR/USD", "GBP/USD"}
Directions == {"BUY", "SELL"}
Signals == {"BUY", "SELL", "HOLD"}
Prices == {1100000, 1100013, 1105000}
Lots == {DEFAULT_LOT, 12}
\* the two prices of the ledger round trip 1.1000 -> 1.1050
RoundTripPrices == {1100000, 1105000}
ResetBalances == {500000}
\* every map pair -> price over a subset of the pairs (close_all_at_market)
PriceMaps(P) == UNION {[S -> P] : S \in SUBSET Pairs}

\* Python's None as a return value; an ID is a non-empty digit sequence and a
\* returned trade is the one-element sequence <<trade>>
None == <<>>
NoFile == [exists |-> FALSE]
NoKey == -1

VARIABLES
    trades,         \* self.trades: the journal document {'trades': [...]}
    balance,        \* self.balance
    trade_counter,  \* self.trade_counter
    journal_file,   \* journal.json: NoFile or [exists, doc]
    balance_file,   \* balance.json: NoFile or [exists, balance]
    alive,          \* the process holding the TradingJournal object runs
    starts,         \* history: how many times the TradingJournal was constructed
    bot,            \* ForexTradingBot: last_signals and the running analysis cycle
    web,            \* the web app: the requests in flight, each with its locals
    base,           \* history: the constructor's balance, or the last reset's
    issued,         \* history: the IDs open_trade returned, in order
    last            \* history: the last call, its arguments and its result

memVars == <<trades, balance, trade_counter>>
fileVars == <<journal_file, balance_file>>
procVars == <<alive, starts>>
histVars == <<base, issued, last>>
hostVars == <<bot, web>>
vars == <<trades, balance, trade_counter, journal_file, balance_file, alive,
          starts, bot, web, base, issued, last>>

\* ------------------------------------------------------- arithmetic
\* round(n / d) for d > 0, a tie to the even neighbour (Python's round)
RoundDiv(n, d) ==
    LET q == n \div d
        r == n % d
    IN  IF 2 * r < d THEN q
        ELSE IF 2 * r > d THEN q + 1
        ELSE IF q % 2 = 0 THEN q ELSE q + 1

\* round((exit - entry) * 10000, 1), or (entry - exit) for a SELL, in tenths
Pips(direction, entry_price, exit_price) ==
    IF direction = "BUY"
    THEN RoundDiv((exit_price - entry_price) * PIP_FACTOR * 10, PriceScale)
    ELSE RoundDiv((entry_price - exit_price) * PIP_FACTOR * 10, PriceScale)

\* faulty variant: the pip value without its factor 10
PnlWithoutFactor(pips, lot_size) == RoundDiv(pips * lot_size * 100, 10 * 1000)

\* round(pips * lot_size * 10, 2), in cents
Pnl(pips, lot_size) == RoundDiv(pips * lot_size * 10 * 100, 10 * 1000)

\* app.py: the same pips expression
AppPips(direction, entry_price, exit_price) ==
    IF direction = "BUY"
    THEN RoundDiv((exit_price - entry_price) * PIP_FACTOR * 10, PriceScale)
    ELSE RoundDiv((entry_price - exit_price) * PIP_FACTOR * 10, PriceScale)

\* app.py: round(pips * 0.10, 2), in cents
AppPnl(pips) == RoundDiv(pips * 10 * 100, 10 * 100)

\* ------------------------------------------------------------- IDs
RECURSIVE DigitsOf(_)
DigitsOf(n) == IF n < 10 THEN <<n>> ELSE Append(DigitsOf(n \div 10), n % 10)

RECURSIVE ZeroPad(_, _)
ZeroPad(ds, width) == IF Len(ds) >= width THEN ds ELSE ZeroPad(<<0>> \o ds, width)

\* f"TR{n:04d}": the decimal digits of n, zero-padded to 4 (the prefix is fixed)
TradeId(n) == ZeroPad(DigitsOf(n), ID_WIDTH)

RECURSIVE IdNum(_)
IdNum(id) == IF id = <<>> THEN 0 ELSE 10 * IdNum(SubSeq(id, 1, Len(id) - 1)) + id[Len(id)]

\* ----------------------------------------------------------- trades
\* the trade dict of open_trade; exit_price None is 0 (no price is 0) and
\* exit_reason None is "None"
NewTrade(id, pair, direction, entry_price, lot_size) ==
    [id |-> id, pair |-> pair, direction |-> direction,
     entry_price |-> entry_price, lot_size |-> lot_size, status |-> "OPEN",
     exit_price |-> 0, exit_reason |-> "None", pips |-> 0, pnl |-> 0]

EmptyJournal == [trades |-> <<>>, next_id |-> NoKey]

\* _load_trades / _load_balance
LoadTrades(file) == IF file.exists THEN file.doc ELSE EmptyJournal
LoadBalance(file, default) == IF file.exists THEN file.balance ELSE default

\* len(self.trades): the number of keys of the journal document, 'trades'
\* and, in a document the web app wrote, 'next_id'
DocLen(doc) == IF doc.next_id = NoKey THEN 1 ELSE 2

\* _save_trades / _save_balance
SavedTrades(doc) == [exists |-> TRUE, doc |-> doc]
SavedBalance(b) == [exists |-> TRUE, balance |-> b]

\* get_open_trades / get_closed_trades
OpenTrades(ts) == SelectSeq(ts, LAMBDA t : t.status = "OPEN")
ClosedTrades(ts) == SelectSeq(ts, LAMBDA t : t.status = "CLOSED")

RECURSIVE SumPnl(_)
SumPnl(ts) == IF ts = <<>> THEN 0 ELSE ts[1].pnl + SumPnl(Tail(ts))

\* The ledger as the journal's methods pass it along: memory and both files.
Ledger(doc, bal, ctr, jf, bf) ==
    [doc |-> doc, balance |-> bal, counter |-> ctr, jfile |-> jf, bfile |-> bf]

Current == Ledger(trades, balance, trade_counter, journal_file, balance_file)

Install(L) ==
    /\ trades' = L.doc
    /\ balance' = L.balance
    /\ trade_counter' = L.counter
    /\ journal_file' = L.jfile
    /\ balance_file' = L.bfile

\* ------------------------------------------------------- TradingJournal
\* faulty variant: open_trade refusing a second OPEN trade of one (pair, direction)
OpenTradeOnRefusingDuplicate(L, pair, direction, entry_price, lot_size) ==
    LET id == TradeId(L.counter)
        doc == [L.doc EXCEPT !.trades =
                    Append(@, NewTrade(id, pair, direction, entry_price, lot_size))]
    IN  IF \E i \in 1..Len(L.doc.trades) :
                /\ L.doc.trades[i].status = "OPEN"
                /\ L.doc.trades[i].pair = pair
                /\ L.doc.trades[i].direction = direction
        THEN [L |-> L, ret |-> None]
        ELSE [L |-> [L EXCEPT !.doc = doc, !.counter = @ + 1,
                              !.jfile = SavedTrades(doc)],
              ret |-> id]

\* open_trade: the ID from the counter, the counter advanced, the trade
\* appended OPEN, the journal saved; returns the ID
OpenTradeOn(L, pair, direction, entry_price, lot_size) ==
    LET id == TradeId(L.counter)
        doc == [L.doc EXCEPT !.trades =
                    Append(@, NewTrade(id, pair, direction, entry_price, lot_size))]
    IN  [L |-> [L EXCEPT !.doc = doc, !.counter = @ + 1,
                         !.jfile = SavedTrades(doc)],
         ret |-> id]

\* faulty variant: the status test of close_trade's loop left out
FirstWithId(ts, trade_id) ==
    LET hits == {i \in 1..Len(ts) : ts[i].id = trade_id}
    IN  IF hits = {} THEN 0 ELSE CHOOSE i \in hits : \A j \in hits : i <= j

\* the first trade of the list with this ID and status OPEN (0: none)
FirstOpen(ts, trade_id) ==
    LET hits == {i \in 1..Len(ts) : ts[i].id = trade_id /\ ts[i].status = "OPEN"}
    IN  IF hits = {} THEN 0 ELSE CHOOSE i \in hits : \A j \in hits : i <= j

\* the trade as close_trade leaves it
ClosedTrade(t, exit_price, reason) ==
    LET pips == Pips(t.direction, t.entry_price, exit_price)
    IN  [t EXCEPT !.exit_price = exit_price, !.exit_reason = reason,
                  !.status = "CLOSED", !.pips = pips,
                  !.pnl = Pnl(pips, t.lot_size)]

\* faulty variant: close_trade saving the balance without adding the pnl
CloseTradeOnWithoutCredit(L, trade_id, exit_price, reason) ==
    LET i == FirstOpen(L.doc.trades, trade_id)
    IN  IF i = 0 THEN [L |-> L, ret |-> None]
        ELSE LET t == ClosedTrade(L.doc.trades[i], exit_price, reason)
                 doc == [L.doc EXCEPT !.trades[i] = t]
             IN  [L |-> [L EXCEPT !.doc = doc,
                                  !.bfile = SavedBalance(L.balance),
                                  !.jfile = SavedTrades(doc)],
                  ret |-> <<t>>]

\* faulty variant: close_trade closing the first trade with the ID, OPEN or not
CloseTradeOnAnyStatus(L, trade_id, exit_price, reason) ==
    LET i == FirstWithId(L.doc.trades, trade_id)
    IN  IF i = 0 THEN [L |-> L, ret |-> None]
        ELSE LET t == ClosedTrade(L.doc.trades[i], exit_price, reason)
                 doc == [L.doc EXCEPT !.trades[i] = t]
                 bal == L.balance + t.pnl
             IN  [L |-> [L EXCEPT !.doc = doc, !.balance = bal,
                                  !.bfile = SavedBalance(bal),
                                  !.jfile = SavedTrades(doc)],
                  ret |-> <<t>>]

\* close_trade: the first OPEN trade with the ID is closed, its pnl added to
\* the balance, the balance saved, then the journal saved; returns the trade,
\* or None when no OPEN trade has the ID
CloseTradeOn(L, trade_id, exit_price, reason) ==
    LET i == FirstOpen(L.doc.trades, trade_id)
    IN  IF i = 0 THEN [L |-> L, ret |-> None]
        ELSE LET t == ClosedTrade(L.doc.trades[i], exit_price, reason)
                 doc == [L.doc EXCEPT !.trades[i] = t]
                 bal == L.balance + t.pnl
             IN  [L |-> [L EXCEPT !.doc = doc, !.balance = bal,
                                  !.bfile = SavedBalance(bal),
                                  !.jfile = SavedTrades(doc)],
                  ret |-> <<t>>]

\* close_all_at_market: the loop over the trade list from index i on;
\* closed collects the IDs whose close returned a trade
RECURSIVE CloseAllFrom(_, _, _, _)
CloseAllFrom(L, current_prices, i, closed) ==
    IF i > Len(L.doc.trades) THEN [L |-> L, ret |-> closed]
    ELSE LET t == L.doc.trades[i]
         IN  IF t.status = "OPEN" /\ t.pair \in DOMAIN current_prices
             THEN LET r == CloseTradeOn(L, t.id, current_prices[t.pair],
                                        "MARKET_CLOSE")
                  IN  CloseAllFrom(r.L, current_prices, i + 1,
                                   IF r.ret # None THEN Append(closed, t.id)
                                   ELSE closed)
             ELSE CloseAllFrom(L, current_prices, i + 1, closed)

\* faulty variant: reset starting the ID counter again
ResetOnRestartingCounter(L, new_balance) ==
    [L EXCEPT !.doc = EmptyJournal, !.balance = new_balance, !.counter = 1,
              !.jfile = SavedTrades(EmptyJournal),
              !.bfile = SavedBalance(new_balance)]

\* reset: the trade list replaced by an empty one, the balance set, both
\* saved; trade_counter is not touched
ResetOn(L, new_balance) ==
    [L EXCEPT !.doc = EmptyJournal, !.balance = new_balance,
              !.jfile = SavedTrades(EmptyJournal),
              !.bfile = SavedBalance(new_balance)]

\* ------------------------------------------------------------- get_stats
\* max(closed, key=pnl) / min(closed, key=pnl): the first trade of the list
\* with the greatest / smallest pnl
BestTrade(closed) ==
    closed[CHOOSE i \in 1..Len(closed) :
            /\ \A j \in 1..Len(closed) : closed[j].pnl <= closed[i].pnl
            /\ \A j \in 1..(i - 1) : closed[j].pnl < closed[i].pnl]
WorstTrade(closed) ==
    closed[CHOOSE i \in 1..Len(closed) :
            /\ \A j \in 1..Len(closed) : closed[j].pnl >= closed[i].pnl
            /\ \A j \in 1..(i - 1) : closed[j].pnl > closed[i].pnl]

Wins(closed) == SelectSeq(closed, LAMBDA t : t.pnl > 0)
Losses(closed) == SelectSeq(closed, LAMBDA t : t.pnl < 0)

\* round(len(wins) / len(closed) * 100, 1), in tenths of a percent
WinRate(wins, closed) == RoundDiv(Len(wins) * 100 * 10, Len(closed))

\* faulty variant: get_stats taking every trade of the list for a closed one
StatsOfCountingOpen(L) ==
    LET closed == L.doc.trades
        open_trades == OpenTrades(L.doc.trades)
    IN  IF closed = <<>>
        THEN [total_trades |-> 0, wins |-> 0, losses |-> 0, win_rate |-> 0,
              total_pnl |-> 0, open_trades |-> Len(open_trades),
              balance |-> L.balance]
        ELSE [total_trades |-> Len(closed),
              wins |-> Len(Wins(closed)),
              losses |-> Len(Losses(closed)),
              win_rate |-> WinRate(Wins(closed), closed),
              total_pnl |-> SumPnl(closed),
              open_trades |-> Len(open_trades),
              balance |-> L.balance,
              best_trade |-> BestTrade(closed),
              worst_trade |-> WorstTrade(closed)]

\* TradingJournal.get_stats.  total_pnl and balance are rounded to cents,
\* the unit they are kept in; win_rate is rounded to one decimal.
StatsOf(L) ==
    LET closed == ClosedTrades(L.doc.trades)
        open_trades == OpenTrades(L.doc.trades)
    IN  IF closed = <<>>
        THEN [total_trades |-> 0, wins |-> 0, losses |-> 0, win_rate |-> 0,
              total_pnl |-> 0, open_trades |-> Len(open_trades),
              balance |-> L.balance]
        ELSE [total_trades |-> Len(closed),
              wins |-> Len(Wins(closed)),
              losses |-> Len(Losses(closed)),
              win_rate |-> WinRate(Wins(closed), closed),
              total_pnl |-> SumPnl(closed),
              open_trades |-> Len(open_trades),
              balance |-> L.balance,
              best_trade |-> BestTrade(closed),
              worst_trade |-> WorstTrade(closed)]

\* -------------------------------------------------------- VirtualTrader
\* on_signal's loop: every trade of the snapshot pair_trades with the
\* opposite direction is closed at the signal price, reason REVERSED
RECURSIVE ReverseFrom(_, _, _, _, _)
ReverseFrom(L, pair_trades, i, opposite, price) ==
    IF i > Len(pair_trades) THEN L
    ELSE IF pair_trades[i].direction = opposite
         THEN ReverseFrom(CloseTradeOn(L, pair_trades[i].id, price, "REVERSED").L,
                          pair_trades, i + 1, opposite, price)
         ELSE ReverseFrom(L, pair_trades, i + 1, opposite, price)

Opposite(direction) == IF direction = "BUY" THEN "SELL" ELSE "BUY"

\* faulty variant: on_signal opening without looking for an OPEN trade of its direction
OnSignalOnWithoutOwnCheck(L, pair, signal, price) ==
    IF signal = "HOLD" THEN [L |-> L, ret |-> None]
    ELSE LET pair_trades == SelectSeq(OpenTrades(L.doc.trades),
                                      LAMBDA t : t.pair = pair)
             L1 == ReverseFrom(L, pair_trades, 1, Opposite(signal), price)
         IN  OpenTradeOn(L1, pair, signal, price, DEFAULT_LOT)

\* faulty variant: on_signal opening without closing the opposite trades
OnSignalOnWithoutReversal(L, pair, signal, price) ==
    IF signal = "HOLD" THEN [L |-> L, ret |-> None]
    ELSE LET pair_trades == SelectSeq(OpenTrades(L.doc.trades),
                                      LAMBDA t : t.pair = pair)
         IN  IF \A k \in 1..Len(pair_trades) : pair_trades[k].direction # signal
             THEN OpenTradeOn(L, pair, signal, price, DEFAULT_LOT)
             ELSE [L |-> L, ret |-> None]

\* faulty variant: HOLD taken as an exit signal, closing the pair's OPEN trades
OnSignalOnHoldCloses(L, pair, signal, price) ==
    LET pair_trades == SelectSeq(OpenTrades(L.doc.trades),
                                 LAMBDA t : t.pair = pair)
    IN  IF signal = "HOLD"
        THEN [L |-> ReverseFrom(ReverseFrom(L, pair_trades, 1, "BUY", price),
                                pair_trades, 1, "SELL", price),
              ret |-> None]
        ELSE LET L1 == ReverseFrom(L, pair_trades, 1, Opposite(signal), price)
             IN  IF \A k \in 1..Len(pair_trades) :
                        pair_trades[k].direction # signal
                 THEN OpenTradeOn(L1, pair, signal, price, DEFAULT_LOT)
                 ELSE [L |-> L1, ret |-> None]

\* on_signal: HOLD returns at once; BUY/SELL closes the opposite trades of
\* the pair, then opens one in the signal's direction when the snapshot
\* holds none; returns the new ID or None
OnSignalOn(L, pair, signal, price) ==
    IF signal = "HOLD" THEN [L |-> L, ret |-> None]
    ELSE LET pair_trades == SelectSeq(OpenTrades(L.doc.trades),
                                      LAMBDA t : t.pair = pair)
             L1 == ReverseFrom(L, pair_trades, 1, Opposite(signal), price)
         IN  IF \A k \in 1..Len(pair_trades) : pair_trades[k].direction # signal
             THEN OpenTradeOn(L1, pair, signal, price, DEFAULT_LOT)
             ELSE [L |-> L1, ret |-> None]

\* ------------------------------------------------------ the web app
\* app.py keeps nothing in memory: every request loads the two files the
\* journal also uses, works on its local copies and saves them.  The Flask
\* server runs each request in a thread of its own and the functions take
\* no lock, so requests interleave between their file reads and writes.
Requests == {1, 2}

\* load_journal / load_balance
AppLoadJournal(file) ==
    IF file.exists THEN file.doc ELSE [trades |-> <<>>, next_id |-> 1]
AppLoadBalance(file) == IF file.exists THEN file.balance ELSE INITIAL_BALANCE

\* the trade dict of the app's open_trade: no lot_size, no exit_reason
AppNewTrade(id, pair, direction, entry_price) ==
    [id |-> id, pair |-> pair, direction |-> direction,
     entry_price |-> entry_price, status |-> "OPEN",
     exit_price |-> 0, pips |-> 0, pnl |-> 0]

\* the trade as the app's close_trade leaves it
AppClosedTrade(t, exit_price) ==
    LET pips == AppPips(t.direction, t.entry_price, exit_price)
    IN  [t EXCEPT !.exit_price = exit_price, !.status = "CLOSED",
                  !.pips = pips, !.pnl = AppPnl(pips)]

\* journal['trades'][-20:]
LastTrades(ts) == SubSeq(ts, IF Len(ts) > 20 THEN Len(ts) - 19 ELSE 1, Len(ts))

\* the app's get_stats over the two files
AppStatsOf(jfile, bfile) ==
    LET journal == AppLoadJournal(jfile)
        bal == AppLoadBalance(bfile)
        open_trades == OpenTrades(journal.trades)
        closed_trades == ClosedTrades(journal.trades)
    IN  [balance |-> bal,
         open_trades |-> Len(open_trades),
         total_trades |-> Len(closed_trades),
         wins |-> Len(Wins(closed_trades)),
         losses |-> Len(Losses(closed_trades)),
         win_rate |-> IF closed_trades # <<>>
                      THEN WinRate(Wins(closed_trades), closed_trades) ELSE 0,
         total_pnl |-> SumPnl(closed_trades),
         trades |-> LastTrades(journal.trades)]

\* a request thread between two requests; journal, at and balance are the
\* locals of the function it runs
IdleRequest ==
    [pc |-> "idle", journal |-> [trades |-> <<>>, next_id |-> 1], at |-> 0,
     balance |-> 0]

WebIdle ==
    [req |-> [r \in Requests |-> IdleRequest],
     started |-> 0,     \* history: requests begun
     opened |-> 0,      \* history: open_trade calls that returned a trade
     closed |-> 0]      \* history: close_trade calls that returned a trade

\* open_trade up to its save: the journal is loaded, the ID made from
\* next_id, next_id advanced and the trade appended to the local copy.  A
\* document without next_id raises KeyError and the request ends.
AppOpenLoad(r, pair, direction, entry_price) ==
    /\ web.req[r].pc = "idle"
    /\ LET journal == AppLoadJournal(journal_file)
           trade == AppNewTrade(TradeId(journal.next_id), pair, direction,
                                entry_price)
       IN  IF journal.next_id = NoKey
           THEN /\ web' = [web EXCEPT !.started = @ + 1]
                /\ last' = [op |-> "app_open_trade", args |-> <<r>>,
                            ret |-> None]
           ELSE /\ web' = [web EXCEPT
                             !.started = @ + 1,
                             !.req[r] = [pc |-> "open_save",
                                         journal |->
                                            [trades |-> Append(journal.trades, trade),
                                             next_id |-> journal.next_id + 1],
                                         at |-> Len(journal.trades) + 1,
                                         balance |-> 0]]
                /\ last' = [op |-> "app_open_load", args |-> <<r>>,
                            ret |-> None]
    /\ UNCHANGED <<memVars, fileVars, procVars, bot, base, issued>>

\* open_trade's save_journal and return
AppOpenSave(r) ==
    /\ web.req[r].pc = "open_save"
    /\ journal_file' = SavedTrades(web.req[r].journal)
    /\ web' = [web EXCEPT !.req[r] = IdleRequest, !.opened = @ + 1]
    /\ last' = [op |-> "app_open_trade", args |-> <<r>>,
                ret |-> <<web.req[r].journal.trades[web.req[r].at]>>]
    /\ UNCHANGED <<memVars, balance_file, procVars, bot, base, issued>>

\* close_trade up to load_balance: the journal is loaded and the first OPEN
\* trade with the ID is closed in the local copy; None when there is none
AppCloseLoad(r, trade_id, exit_price) ==
    /\ web.req[r].pc = "idle"
    /\ LET journal == AppLoadJournal(journal_file)
           i == FirstOpen(journal.trades, trade_id)
       IN  IF i = 0
           THEN /\ web' = [web EXCEPT !.started = @ + 1]
                /\ last' = [op |-> "app_close_trade", args |-> <<r>>,
                            ret |-> None]
           ELSE /\ web' = [web EXCEPT
                             !.started = @ + 1,
                             !.req[r] = [pc |-> "close_load_balance",
                                         journal |->
                                            [journal EXCEPT !.trades[i] =
                                                AppClosedTrade(@, exit_price)],
                                         at |-> i,
                                         balance |-> 0]]
                /\ last' = [op |-> "app_close_load", args |-> <<r>>,
                            ret |-> None]
    /\ UNCHANGED <<memVars, fileVars, procVars, bot, base, issued>>

\* balance = load_balance(); balance += trade['pnl']
AppCloseLoadBalance(r) ==
    /\ web.req[r].pc = "close_load_balance"
    /\ web' = [web EXCEPT
                 !.req[r].pc = "close_save_balance",
                 !.req[r].balance =
                    AppLoadBalance(balance_file)
                        + web.req[r].journal.trades[web.req[r].at].pnl]
    /\ last' = [op |-> "app_close_load_balance", args |-> <<r>>, ret |-> None]
    /\ UNCHANGED <<memVars, fileVars, procVars, bot, base, issued>>

\* save_balance(balance)
AppCloseSaveBalance(r) ==
    /\ web.req[r].pc = "close_save_balance"
    /\ balance_file' = SavedBalance(web.req[r].balance)
    /\ web' = [web EXCEPT !.req[r].pc = "close_save_journal"]
    /\ last' = [op |-> "app_close_save_balance", args |-> <<r>>, ret |-> None]
    /\ UNCHANGED <<memVars, journal_file, procVars, bot, base, issued>>

\* save_journal(journal) and return
AppCloseSaveJournal(r) ==
    /\ web.req[r].pc = "close_save_journal"
    /\ journal_file' = SavedTrades(web.req[r].journal)
    /\ web' = [web EXCEPT !.req[r] = IdleRequest, !.closed = @ + 1]
    /\ last' = [op |-> "app_close_trade", args |-> <<r>>,
                ret |-> <<web.req[r].journal.trades[web.req[r].at]>>]
    /\ UNCHANGED <<memVars, balance_file, procVars, bot, base, issued>>

\* ------------------------------------------------------ ForexTradingBot
\* self.pairs, in the order the cycle walks them
BotPairs == <<"EUR/USD", "GBP/USD">>

\* what process_pair can come to for one pair: analyze_pair returns None
\* (no data), an exception leaves analyze_pair, send_signal or on_signal, or
\* the pair is processed to the end
Outcomes == {"no_data", "analysis_error", "notify_error", "trade_error", "ok"}

BotIdle ==
    [last_signals |-> [p \in Pairs |-> "None"],
     at |-> 0,          \* the loop's position in self.pairs; 0: no cycle runs
     results |-> <<>>,  \* run_analysis_cycle's local results
     prices |-> <<>>,   \* run_analysis_cycle's local prices, pair -> price
     tried |-> <<>>,    \* history: the process_pair calls of this cycle
     sent |-> <<>>,     \* history: the send_signal calls of this cycle
     log |-> <<>>,      \* history: the process_pair calls that returned a
                        \* result, over all cycles, each with its signal,
                        \* whether send_signal was called and whether
                        \* Telegram took the message
     cycles |-> 0]      \* history: cycles begun

\* faulty variant: a notification whenever the signal differs from the last
ShouldNotifyOnChange(last_signal, signal) ==
    signal # last_signal

\* should_notify: BUY and SELL always, HOLD only after a BUY or SELL
ShouldNotify(last_signal, signal) ==
    \/ signal \in {"BUY", "SELL"}
    \/ signal = "HOLD" /\ last_signal \in {"BUY", "SELL"}

\* faulty variant: the loop body without its try/except, an exception
\* ending the loop
CycleStepWithoutExcept(B, pair, outcome, result) ==
    IF outcome = "ok"
    THEN [B EXCEPT !.at = @ + 1,
                   !.results = Append(@, result),
                   !.prices = (pair :> result.price) @@ @,
                   !.tried = Append(@, [pair |-> pair, outcome |-> outcome])]
    ELSE IF outcome = "no_data"
    THEN [B EXCEPT !.at = @ + 1,
                   !.tried = Append(@, [pair |-> pair, outcome |-> outcome])]
    ELSE [B EXCEPT !.at = Len(BotPairs) + 1,
                   !.tried = Append(@, [pair |-> pair, outcome |-> outcome])]

\* the body of run_analysis_cycle's loop around process_pair: a result is
\* appended and its price kept; None is passed over; an exception is logged
\* and the loop continues with the next pair
CycleStep(B, pair, outcome, result) ==
    IF outcome = "ok"
    THEN [B EXCEPT !.at = @ + 1,
                   !.results = Append(@, result),
                   !.prices = (pair :> result.price) @@ @,
                   !.tried = Append(@, [pair |-> pair, outcome |-> outcome])]
    ELSE [B EXCEPT !.at = @ + 1,
                   !.tried = Append(@, [pair |-> pair, outcome |-> outcome])]

\* run_analysis_cycle entered: results = [], prices = {}
StartCycle ==
    /\ alive
    /\ bot.at = 0
    /\ bot' = [bot EXCEPT !.at = 1, !.results = <<>>, !.prices = <<>>,
                          !.tried = <<>>, !.sent = <<>>, !.cycles = @ + 1]
    /\ last' = [op |-> "cycle_start", args |-> <<>>, ret |-> None]
    /\ UNCHANGED <<memVars, fileVars, procVars, web, base, issued>>

\* the loop is over: update_prices computes the unrealized pnl of the OPEN
\* trades and keeps none of it; the results are returned
EndCycle ==
    /\ alive
    /\ bot.at = Len(BotPairs) + 1
    /\ bot' = [bot EXCEPT !.at = 0]
    /\ last' = [op |-> "run_analysis_cycle", args |-> <<>>, ret |-> bot.results]
    /\ UNCHANGED <<memVars, fileVars, procVars, web, base, issued>>

\* -------------------------------------------------------- ForexAnalyzer
\* A float that may be NaN: the fraction <<num, den>> with den > 0, or NaN.
\* A comparison with NaN is false, as in Python.
NaN == <<0, 0>>
Number(n) == <<n, 1>>
IsNaN(x) == x[2] = 0
Less(x, y) == ~IsNaN(x) /\ ~IsNaN(y) /\ x[1] * y[2] < y[1] * x[2]

Trends == {"STRONG_UPTREND", "WEAK_UPTREND", "STRONG_DOWNTREND",
           "WEAK_DOWNTREND", "RANGE_BOUND"}
Positions == {"AT_SUPPORT", "AT_RESISTANCE", "NEAR_SUPPORT",
              "NEAR_RESISTANCE", "NEUTRAL"}
PatternOrder == <<"DOJI", "BULLISH_HAMMER", "INVERTED_HAMMER", "SHOOTING_STAR",
                  "BULLISH_ENGULFING", "BEARISH_ENGULFING", "MORNING_STAR",
                  "EVENING_STAR", "THREE_WHITE_SOLDIERS">>
Patterns == {PatternOrder[k] : k \in 1..Len(PatternOrder)} \cup {"NONE"}
RsiValues == {Number(30), Number(35), Number(50), Number(65), Number(70), NaN}

\* the strategies argument: None, or a dict over some of the four keys
StrategyKeys == {"trend", "support_resistance", "candles", "rsi"}
DefaultStrategies == [k \in StrategyKeys |-> TRUE]
StrategyArgs ==
    {[given |-> FALSE, dict |-> <<>>]}
        \cup {[given |-> TRUE, dict |-> f] :
                f \in UNION {[S -> BOOLEAN] : S \in SUBSET StrategyKeys}}

\* strategies = the default when None; strategies.get(key, False)
StrategyOn(strategies, key) ==
    LET d == IF strategies.given THEN strategies.dict ELSE DefaultStrategies
    IN  key \in DOMAIN d /\ d[key]

\* 'UPTREND' in trend / 'DOWNTREND' in trend: the substring test on the
\* five names get_trend returns
HasUptrend(trend) == trend \in {"STRONG_UPTREND", "WEAK_UPTREND"}
HasDowntrend(trend) == trend \in {"STRONG_DOWNTREND", "WEAK_DOWNTREND"}

bullish_patterns == {"BULLISH_HAMMER", "BULLISH_ENGULFING", "MORNING_STAR",
                     "THREE_WHITE_SOLDIERS", "INVERTED_HAMMER"}
bearish_patterns == {"SHOOTING_STAR", "BEARISH_ENGULFING", "EVENING_STAR"}

\* one strategy block of generate_signal: acc is [score, reasons], the score
\* in halves of a point
Scored(acc, points, reason) ==
    [score |-> acc.score + points, reasons |-> Append(acc.reasons, reason)]

TrendBlock(acc, strategies, trend) ==
    IF ~StrategyOn(strategies, "trend") THEN acc
    ELSE IF HasUptrend(trend) THEN Scored(acc, 2, "Uptrend")
    ELSE IF HasDowntrend(trend) THEN Scored(acc, -2, "Downtrend")
    ELSE acc

PositionBlock(acc, strategies, price_position) ==
    IF ~StrategyOn(strategies, "support_resistance") THEN acc
    ELSE IF price_position = "AT_SUPPORT" THEN Scored(acc, 2, "At support")
    ELSE IF price_position = "NEAR_SUPPORT" THEN Scored(acc, 1, "Near support")
    ELSE IF price_position = "AT_RESISTANCE" THEN Scored(acc, -2, "At resistance")
    ELSE acc

CandleBlock(acc, strategies, candle_pattern) ==
    IF ~StrategyOn(strategies, "candles") THEN acc
    ELSE IF candle_pattern \in bullish_patterns THEN Scored(acc, 2, candle_pattern)
    ELSE IF candle_pattern \in bearish_patterns THEN Scored(acc, -2, candle_pattern)
    ELSE acc

\* faulty variant: the rsi worth a whole point
RsiBlockWholePoint(acc, strategies, rsi) ==
    IF ~StrategyOn(strategies, "rsi") THEN acc
    ELSE IF Less(rsi, Number(35)) THEN Scored(acc, 2, "RSI oversold")
    ELSE IF Less(Number(65), rsi) THEN Scored(acc, -2, "RSI overbought")
    ELSE acc

RsiBlock(acc, strategies, rsi) ==
    IF ~StrategyOn(strategies, "rsi") THEN acc
    ELSE IF Less(rsi, Number(35)) THEN Scored(acc, 1, "RSI oversold")
    ELSE IF Less(Number(65), rsi) THEN Scored(acc, -1, "RSI overbought")
    ELSE acc

\* faulty variant: the final mapping with strict comparisons
FinalSignalStrict(score) ==
    IF score > 4 THEN "BUY" ELSE IF score < -4 THEN "SELL" ELSE "HOLD"

\* score >= 2 BUY, score <= -2 SELL, else HOLD (the score in halves)
FinalSignal(score) ==
    IF score >= 4 THEN "BUY" ELSE IF score <= -4 THEN "SELL" ELSE "HOLD"

\* faulty variant: NEAR_RESISTANCE scored as the mirror of NEAR_SUPPORT
GenerateSignalOfMirrored(trend, price_position, candle_pattern, rsi, strategies) ==
    LET a0 == [score |-> 0, reasons |-> <<>>]
        a1 == TrendBlock(a0, strategies, trend)
        a2 == IF StrategyOn(strategies, "support_resistance")
                    /\ price_position = "NEAR_RESISTANCE"
              THEN Scored(a1, -1, "Near resistance")
              ELSE PositionBlock(a1, strategies, price_position)
        a3 == CandleBlock(a2, strategies, candle_pattern)
        a4 == RsiBlock(a3, strategies, rsi)
    IN  <<FinalSignal(a4.score), a4.score, a4.reasons>>

\* faulty variant: the trend block run whatever strategies says
GenerateSignalOfTrendAlways(trend, price_position, candle_pattern, rsi, strategies) ==
    LET a0 == [score |-> 0, reasons |-> <<>>]
        a1 == TrendBlock(a0, [given |-> FALSE, dict |-> <<>>], trend)
        a2 == PositionBlock(a1, strategies, price_position)
        a3 == CandleBlock(a2, strategies, candle_pattern)
        a4 == RsiBlock(a3, strategies, rsi)
    IN  <<FinalSignal(a4.score), a4.score, a4.reasons>>

\* generate_signal: the four blocks in the order trend, support/resistance,
\* candles, rsi, then the final mapping; returns (signal, score, reasons)
GenerateSignalOf(trend, price_position, candle_pattern, rsi, strategies) ==
    LET a0 == [score |-> 0, reasons |-> <<>>]
        a1 == TrendBlock(a0, strategies, trend)
        a2 == PositionBlock(a1, strategies, price_position)
        a3 == CandleBlock(a2, strategies, candle_pattern)
        a4 == RsiBlock(a3, strategies, rsi)
    IN  <<FinalSignal(a4.score), a4.score, a4.reasons>>

\* faulty variant: the first test of get_trend with >= for the price
TrendOfInclusive(current_price, ema_50, ema_200) ==
    IF current_price >= ema_200 /\ ema_50 > ema_200 THEN "STRONG_UPTREND"
    ELSE IF current_price > ema_200 THEN "WEAK_UPTREND"
    ELSE IF current_price < ema_200 /\ ema_50 < ema_200 THEN "STRONG_DOWNTREND"
    ELSE IF current_price < ema_200 THEN "WEAK_DOWNTREND"
    ELSE "RANGE_BOUND"

\* get_trend's if/elif chain over the last close and the last values of
\* ema_50 and ema_200
TrendOf(current_price, ema_50, ema_200) ==
    IF current_price > ema_200 /\ ema_50 > ema_200 THEN "STRONG_UPTREND"
    ELSE IF current_price > ema_200 THEN "WEAK_UPTREND"
    ELSE IF current_price < ema_200 /\ ema_50 < ema_200 THEN "STRONG_DOWNTREND"
    ELSE IF current_price < ema_200 THEN "WEAK_DOWNTREND"
    ELSE "RANGE_BOUND"

\* get_trend's ema_trend, and the periods analyze_pair asks get_price_data for
ema_trend == 200
periods == 100

\* the lengths of the series get_trend is tried on
BarCounts == {1, periods, ema_trend - 1, ema_trend, ema_trend + 1}

\* faulty variant: the trend EMA used whatever the length of the series
GetTrendOfWithoutLengthTest(bars, current_price, ema_50, ema_200) ==
    TrendOf(current_price, ema_50, ema_200)

\* get_trend on a series of bars closes: ema_200 is calculate_ema(close, 200)
\* for 200 closes or more and ema_50 itself for fewer
GetTrendOf(bars, current_price, ema_50, ema_200) ==
    TrendOf(current_price, ema_50, IF bars >= ema_trend THEN ema_200 ELSE ema_50)

\* a level that is None (no price is 0)
NoLevel == 0

\* the levels get_price_position is tried on, around the price 1.1000: far,
\* near and at, on either side, and None
Levels == {NoLevel, 1050000, 1090000, 1097000, 1103000, 1110000, 1200000}
PositionPrices == {1100000, 1100013}

\* faulty variant: get_price_position with the distances taken unsigned
PricePositionOfUnsigned(price, nearest_sup, nearest_res) ==
    LET sup == IF price >= nearest_sup THEN price - nearest_sup
               ELSE nearest_sup - price
        res == IF nearest_res >= price THEN nearest_res - price
               ELSE price - nearest_res
    IN  IF nearest_sup = NoLevel \/ nearest_res = NoLevel THEN "NEUTRAL"
        ELSE IF sup * 100 * 2 < price THEN "AT_SUPPORT"
        ELSE IF res * 100 * 2 < price THEN "AT_RESISTANCE"
        ELSE IF sup * 100 < 2 * price THEN "NEAR_SUPPORT"
        ELSE IF res * 100 < 2 * price THEN "NEAR_RESISTANCE"
        ELSE "NEUTRAL"

\* get_price_position for a price > 0: sup_dist = (price - sup) / price * 100
\* and res_dist = (res - price) / price * 100, each compared with 0.5 and 2
\* after multiplying through by the price
PricePositionOf(price, nearest_sup, nearest_res) ==
    IF nearest_sup = NoLevel \/ nearest_res = NoLevel THEN "NEUTRAL"
    ELSE IF (price - nearest_sup) * 100 * 2 < price THEN "AT_SUPPORT"
    ELSE IF (nearest_res - price) * 100 * 2 < price THEN "AT_RESISTANCE"
    ELSE IF (price - nearest_sup) * 100 < 2 * price THEN "NEAR_SUPPORT"
    ELSE IF (nearest_res - price) * 100 < 2 * price THEN "NEAR_RESISTANCE"
    ELSE "NEUTRAL"

\* ---------------------------------------------------------- candlesticks
\* Four price levels with gaps 1, 4 and 1 (in 1e-4): every pattern can be
\* built on them and no comparison of the matcher meets a non-zero tie.
CandleLevels == {1100000, 1100100, 1100500, 1100600}

Max(a, b) == IF a >= b THEN a ELSE b
Min(a, b) == IF a <= b THEN a ELSE b

\* the last bar: any open, high, low, close with low <= open, close <= high
LastBars ==
    {b \in [open : CandleLevels, high : CandleLevels, low : CandleLevels,
            close : CandleLevels] :
        /\ b.low <= Min(b.open, b.close)
        /\ b.high >= Max(b.open, b.close)}

\* the two bars before it, of which the matcher reads open and close only
BodyBars ==
    {[open |-> o, high |-> Max(o, c), low |-> Min(o, c), close |-> c] :
        o \in CandleLevels, c \in CandleLevels}

\* older bars, of which the matcher reads at most the close
FlatBars ==
    {[open |-> c, high |-> c, low |-> c, close |-> c] : c \in CandleLevels}

\* the series of n bars
BarSeries(n) ==
    IF n = 0 THEN {<<>>}
    ELSE IF n = 1 THEN {<<b>> : b \in LastBars}
    ELSE IF n = 2 THEN {<<p, b>> : p \in BodyBars, b \in LastBars}
    ELSE {older \o <<q, p, b>> :
            older \in [1..(n - 3) -> FlatBars],
            q \in BodyBars, p \in BodyBars, b \in LastBars}

\* data[column].iloc[-k]; the callers below have checked k <= len(data)
Bar(data, k) == data[Len(data) + 1 - k]

\* the patterns list after the single-candle and engulfing checks
TwoBarPatterns(data) ==
    LET o == Bar(data, 1).open
        h == Bar(data, 1).high
        l == Bar(data, 1).low
        c == Bar(data, 1).close
        body == IF c >= o THEN c - o ELSE o - c
        upper_shadow == h - Max(o, c)
        lower_shadow == Min(o, c) - l
        po == Bar(data, 2).open
        pc == Bar(data, 2).close
    IN  (IF upper_shadow > body * 3 /\ lower_shadow > body * 3
         THEN <<"DOJI">> ELSE <<>>)
        \o (IF lower_shadow > body * 2 /\ 2 * upper_shadow < body /\ c > o
            THEN <<"BULLISH_HAMMER">> ELSE <<>>)
        \o (IF upper_shadow > body * 2 /\ 2 * lower_shadow < body /\ c > o
            THEN <<"INVERTED_HAMMER">> ELSE <<>>)
        \o (IF upper_shadow > body * 2 /\ 2 * lower_shadow < body /\ c < o
            THEN <<"SHOOTING_STAR">> ELSE <<>>)
        \o (IF c > o /\ pc < po /\ c > po /\ o < pc
            THEN <<"BULLISH_ENGULFING">> ELSE <<>>)
        \o (IF c < o /\ pc > po /\ c < po /\ o > pc
            THEN <<"BEARISH_ENGULFING">> ELSE <<>>)

AbsDiff(a, b) == IF a >= b THEN a - b ELSE b - a

\* the morning star and evening star checks, for len(data) >= 3;
\* abs(c2-o2) < abs(c1-o1)*0.3 and c > (o1+c1)/2 multiplied through
StarPatterns(data) ==
    LET o == Bar(data, 1).open
        c == Bar(data, 1).close
        c1 == Bar(data, 3).close
        o1 == Bar(data, 3).open
        c2 == Bar(data, 2).close
        o2 == Bar(data, 2).open
    IN  (IF c1 < o1 /\ 10 * AbsDiff(c2, o2) < 3 * AbsDiff(c1, o1)
                /\ c > o /\ 2 * c > o1 + c1
         THEN <<"MORNING_STAR">> ELSE <<>>)
        \o (IF c1 > o1 /\ 10 * AbsDiff(c2, o2) < 3 * AbsDiff(c1, o1)
                /\ c < o /\ 2 * c < o1 + c1
            THEN <<"EVENING_STAR">> ELSE <<>>)

\* all(close.iloc[-3+i] > open.iloc[-3+i] for i in range(3))
ThreeBullish(data) == \A k \in 1..3 : Bar(data, k).close > Bar(data, k).open

\* all(close.iloc[-3+i] > close.iloc[-4+i] for i in range(3)), which reads
\* close.iloc[-4] first
ThreeRising(data) == \A k \in 1..3 : Bar(data, k).close > Bar(data, k + 1).close

\* get_candle_patterns: patterns[0] if patterns else 'NONE'.  .iloc[-2] on a
\* series of fewer than 2 bars, and .iloc[-4] on a series of 3 bars (read
\* once the three bars are bullish), raise IndexError.
GetCandlePatternsOf(data) ==
    IF Len(data) < 2 THEN "IndexError"
    ELSE IF Len(data) = 2
    THEN LET patterns == TwoBarPatterns(data)
         IN  IF patterns # <<>> THEN patterns[1] ELSE "NONE"
    ELSE IF ThreeBullish(data) /\ Len(data) < 4 THEN "IndexError"
    ELSE LET patterns ==
                TwoBarPatterns(data) \o StarPatterns(data)
                    \o (IF ThreeBullish(data) /\ ThreeRising(data)
                        THEN <<"THREE_WHITE_SOLDIERS">> ELSE <<>>)
         IN  IF patterns # <<>> THEN patterns[1] ELSE "NONE"

\* ------------------------------------------------------------------ RSI
RsiPeriods == {2, 3}

\* delta.where(delta > 0, 0) and -delta.where(delta < 0, 0) at index i:
\* delta is NaN at the first index, and NaN fails both tests
GainAt(close, i) ==
    IF i > 1 /\ close[i] > close[i - 1] THEN close[i] - close[i - 1] ELSE 0
LossAt(close, i) ==
    IF i > 1 /\ close[i] < close[i - 1] THEN close[i - 1] - close[i] ELSE 0

RECURSIVE SumGain(_, _, _)
SumGain(close, from, to) ==
    IF from > to THEN 0 ELSE GainAt(close, from) + SumGain(close, from + 1, to)

RECURSIVE SumLoss(_, _, _)
SumLoss(close, from, to) ==
    IF from > to THEN 0 ELSE LossAt(close, from) + SumLoss(close, from + 1, to)

\* calculate_rsi: 50 for an empty series; otherwise the last value of
\* 100 - 100 / (1 + gain / loss), gain and loss the rolling means over the
\* last period values, NaN while the series has fewer than period values.
\* gain / 0 is inf and gives 100, 0 / 0 is NaN; the two means have the same
\* divisor, so the value is 100 * gain / (gain + loss) on the sums.
CalculateRsiOf(close, period) ==
    IF Len(close) = 0 THEN Number(50)
    ELSE IF Len(close) < period THEN NaN
    ELSE LET gain == SumGain(close, Len(close) - period + 1, Len(close))
             loss == SumLoss(close, Len(close) - period + 1, Len(close))
         IN  IF loss = 0 THEN (IF gain = 0 THEN NaN ELSE Number(100))
             ELSE <<100 * gain, gain + loss>>

\* the close series of at most n values
CloseSeries(n) == UNION {[1..k -> Prices] : k \in 0..n}

\* ---------------------------------------------------- support/resistance
\* window = 10: a candidate is compared with the 10 values on either side
window == 10

\* The close series find_support_resistance is tried on: the value 1.1000
\* everywhere but at four spots, two next to each other and the others more
\* than a window apart, each holding one of two lower values, the base value
\* or one of two higher values.  No value lies on a bin boundary of two
\* others.
SRBase == 1100000
SRValues == {1090000, 1097000, SRBase, 1103000, 1110000}
SRSpots == <<11, 12, 22, 33>>
SRSeries(n) ==
    {[i \in 1..n |-> IF \E k \in 1..Len(SRSpots) : SRSpots[k] = i
                     THEN at[CHOOSE k \in 1..Len(SRSpots) : SRSpots[k] = i]
                     ELSE SRBase] :
        at \in [1..Len(SRSpots) -> SRValues]}
NumLevels == {5, 7}

\* all(prices[i] <= prices[i+j] for j in range(-window, window+1) if j != 0)
IsLocalMin(prices, i) ==
    \A j \in (i - window)..(i + window) : j # i => prices[i] <= prices[j]
IsLocalMax(prices, i) ==
    \A j \in (i - window)..(i + window) : j # i => prices[i] >= prices[j]

\* for i in range(window, len(prices) - window), indices from 1 here
Interior(prices) ==
    SelectSeq([k \in 1..Len(prices) |-> k],
              LAMBDA i : i > window /\ i <= Len(prices) - window)

\* local_mins / local_maxs, in the order of the series
LocalMins(prices) ==
    LET at == SelectSeq(Interior(prices), LAMBDA i : IsLocalMin(prices, i))
    IN  [k \in 1..Len(at) |-> prices[at[k]]]
LocalMaxs(prices) ==
    LET at == SelectSeq(Interior(prices), LAMBDA i : IsLocalMax(prices, i))
    IN  [k \in 1..Len(at) |-> prices[at[k]]]

RECURSIVE SumSeq(_)
SumSeq(s) == IF s = <<>> THEN 0 ELSE s[1] + SumSeq(Tail(s))

MinOf(s) == CHOOSE x \in {s[k] : k \in 1..Len(s)} : \A k \in 1..Len(s) : x <= s[k]
MaxOf(s) == CHOOSE x \in {s[k] : k \in 1..Len(s)} : \A k \in 1..Len(s) : x >= s[k]

\* sorted(levels) on fractions: x goes before the first element greater than it
RECURSIVE InsertLevel(_, _)
InsertLevel(x, s) ==
    IF s = <<>> THEN <<x>>
    ELSE IF Less(x, s[1]) THEN <<x>> \o s
    ELSE <<s[1]>> \o InsertLevel(x, Tail(s))

RECURSIVE SortedLevels(_)
SortedLevels(s) ==
    IF s = <<>> THEN <<>>
    ELSE InsertLevel(s[Len(s)], SortedLevels(SubSeq(s, 1, Len(s) - 1)))

\* bin_levels of bin i: min_p + i*step <= l < min_p + (i+1)*step with
\* step = (max_p - min_p) / num_clusters, multiplied through by num_clusters
BinLevels(levels, num_clusters, i) ==
    LET min_p == MinOf(levels)
        max_p == MaxOf(levels)
    IN  SelectSeq(levels,
            LAMBDA l : /\ i * (max_p - min_p) <= num_clusters * (l - min_p)
                       /\ num_clusters * (l - min_p) < (i + 1) * (max_p - min_p))

\* the loop over the bins from bin i on: a non-empty bin appends its mean
\* sum(bin_levels) / len(bin_levels), kept as a fraction
RECURSIVE ClusteredFrom(_, _, _)
ClusteredFrom(levels, num_clusters, i) ==
    IF i >= num_clusters THEN <<>>
    ELSE LET bin_levels == BinLevels(levels, num_clusters, i)
         IN  (IF bin_levels # <<>>
              THEN <<(<<SumSeq(bin_levels), Len(bin_levels)>>)>> ELSE <<>>)
             \o ClusteredFrom(levels, num_clusters, i + 1)

\* faulty variant: the raw candidates returned in the order of the series
ClusterLevelsOfUnsorted(levels, num_clusters) ==
    IF Len(levels) < num_clusters
    THEN [k \in 1..Len(levels) |-> Number(levels[k])]
    ELSE SortedLevels(ClusteredFrom(levels, num_clusters, 0))

\* cluster_levels: fewer candidates than clusters are returned sorted;
\* otherwise the sorted means of the non-empty bins
ClusterLevelsOf(levels, num_clusters) ==
    IF Len(levels) < num_clusters
    THEN SortedLevels([k \in 1..Len(levels) |-> Number(levels[k])])
    ELSE SortedLevels(ClusteredFrom(levels, num_clusters, 0))

\* s[:n]
Truncated(s, n) == SubSeq(s, 1, IF Len(s) < n THEN Len(s) ELSE n)

\* min(levels) if levels else None
NearestOf(levels) ==
    IF levels = <<>> THEN None
    ELSE CHOOSE x \in {levels[k] : k \in 1..Len(levels)} :
            \A k \in 1..Len(levels) : ~Less(levels[k], x)

\* a level of the dict as get_price_position reads it: None, or the value
\* (to the nearest 1e-6)
LevelArg(x) == IF x = None THEN NoLevel ELSE RoundDiv(x[1], x[2])

\* find_support_resistance: the dict it returns
FindSupportResistanceOf(close, num_levels) ==
    LET supports ==
            Truncated(ClusterLevelsOf(LocalMins(close), num_levels \div 2), 3)
        resistances ==
            Truncated(ClusterLevelsOf(LocalMaxs(close), num_levels \div 2), 3)
    IN  [support |-> supports, resistance |-> resistances,
         nearest_support |-> NearestOf(supports),
         nearest_resistance |-> NearestOf(resistances)]

\* ------------------------------------------- process_pair and its analysis
\* What the price data of a pair give analyze_pair: the number of bars
\* get_price_data returned (at most periods, df.tail(periods)), the last
\* close, the last values of EMA(50) and of the 200-EMA the closes would
\* have, and what get_price_position, get_candle_patterns and calculate_rsi
\* return on them.
BotBars == {1, periods}
TrendEmas(price) == {price - 5000, price, price + 5000}
Markets(prices) ==
    UNION {[bars : BotBars, price : {x}, ema_50 : TrendEmas(x),
            ema_200 : TrendEmas(x), price_position : Positions,
            candle_pattern : Patterns, rsi : RsiValues] : x \in prices}

\* three markets at a price, flat on its EMAs: nothing to see, a bullish
\* candle at the support, a bearish candle at the resistance
CycleMarkets(prices) ==
    {[bars |-> periods, price |-> x, ema_50 |-> x, ema_200 |-> x,
      price_position |-> c[1], candle_pattern |-> c[2], rsi |-> Number(50)] :
        x \in prices,
        c \in {<<"NEUTRAL", "NONE">>, <<"AT_SUPPORT", "BULLISH_HAMMER">>,
               <<"AT_RESISTANCE", "SHOOTING_STAR">>}}

\* analyze_pair: the trend of the data, then generate_signal with its
\* default strategies; the result carries both
AnalyzePairOf(pair, market) ==
    LET trend == GetTrendOf(market.bars, market.price, market.ema_50,
                            market.ema_200)
        g == GenerateSignalOf(trend, market.price_position,
                              market.candle_pattern, market.rsi,
                              [given |-> FALSE, dict |-> <<>>])
    IN  [pair |-> pair, price |-> market.price, trend |-> trend,
         signal |-> g[1], score |-> g[2]]

\* one turn of the loop: process_pair for the pair at the loop's position.
\* analyze_pair computes the result from the market; the notification is
\* sent when should_notify says so; on_signal trades; last_signals is
\* updated last.  An exception leaves process_pair where it is raised, with
\* what was done before it kept.  delivered is what send_message returns
\* inside send_signal; process_pair does not read it.
ProcessPair(outcome, market, delivered) ==
    /\ alive
    /\ bot.at \in 1..Len(BotPairs)
    /\ LET pair == BotPairs[bot.at]
           result == AnalyzePairOf(pair, market)
           signal == result.signal
           notify == ShouldNotify(bot.last_signals[pair], signal)
           calls == outcome \in {"trade_error", "ok"} /\ notify
           r == OnSignalOn(Current, pair, signal, result.price)
           B == CycleStep(bot, pair, outcome, result)
       IN  /\ outcome = "notify_error" => notify
           /\ delivered => calls
           /\ bot' = [B EXCEPT
                        !.sent = IF calls THEN Append(@, <<pair, signal>>) ELSE @,
                        !.log = IF outcome = "ok"
                                THEN Append(@, [pair |-> pair, signal |-> signal,
                                                trend |-> result.trend,
                                                score |-> result.score,
                                                notified |-> notify,
                                                delivered |-> delivered,
                                                opened |-> r.ret])
                                ELSE @,
                        !.last_signals[pair] = IF outcome = "ok" THEN signal ELSE @]
           /\ IF outcome = "ok"
              THEN /\ Install(r.L)
                   /\ issued' = IF r.ret # None THEN Append(issued, r.ret)
                                ELSE issued
              ELSE UNCHANGED <<memVars, fileVars, issued>>
           /\ last' = [op |-> "process_pair", args |-> <<pair, outcome>>,
                       ret |-> IF outcome = "ok" THEN <<result>> ELSE None]
    /\ UNCHANGED <<procVars, web, base>>

\* --------------------------------------------- the analyzer's functions
\* Each function is called once on arguments drawn at the start: last holds
\* the call that is due, then the call made and what it returned.
Call(fn, args) == [op |-> fn, args |-> args, ret |-> <<"due">>]
Returned(fn, args, ret) == [op |-> fn, args |-> args, ret |-> <<"returned", ret>>]
IsDue(fn) == last.op = fn /\ last.ret = <<"due">>
HasReturned(fn) == last.op = fn /\ last.ret # <<"due">>

InitAnalyzer ==
    /\ journal_file = NoFile
    /\ balance_file = NoFile
    /\ trades = LoadTrades(journal_file)
    /\ balance = LoadBalance(balance_file, INITIAL_BALANCE)
    /\ trade_counter = DocLen(trades) + 1
    /\ alive = TRUE
    /\ starts = 1
    /\ bot = BotIdle
    /\ web = WebIdle
    /\ base = INITIAL_BALANCE
    /\ issued = <<>>
    /\ \/ \E t \in Trends, p \in Positions, c \in Patterns, r \in RsiValues,
             s \in StrategyArgs :
                last = Call("generate_signal", <<t, p, c, r, s>>)
       \/ \E price \in Prices, slow \in Prices, trend \in Prices, bars \in BarCounts :
                last = Call("get_trend", <<price, slow, trend, bars>>)
       \/ \E price \in PositionPrices, sup \in Levels, res \in Levels :
                last = Call("get_price_position", <<price, sup, res>>)
       \/ \E n \in 0..MaxBars : \E data \in BarSeries(n) :
                last = Call("get_candle_patterns", <<data>>)
       \/ \E close \in CloseSeries(MaxCloses), period \in RsiPeriods :
                last = Call("calculate_rsi", <<close, period>>)
       \/ \E n \in 0..MaxSeries : \E close \in SRSeries(n), num_levels \in NumLevels :
                last = Call("find_support_resistance", <<close, num_levels>>)

AnalyzerReturns(fn, ret) ==
    /\ IsDue(fn)
    /\ last' = Returned(fn, last.args, ret)
    /\ UNCHANGED <<memVars, fileVars, procVars, hostVars, base, issued>>

GenerateSignal ==
    /\ IsDue("generate_signal")
    /\ AnalyzerReturns("generate_signal",
            GenerateSignalOf(last.args[1], last.args[2], last.args[3],
                             last.args[4], last.args[5]))

GetTrend ==
    /\ IsDue("get_trend")
    /\ AnalyzerReturns("get_trend",
            GetTrendOf(last.args[4], last.args[1], last.args[2], last.args[3]))

GetPricePosition ==
    /\ IsDue("get_price_position")
    /\ AnalyzerReturns("get_price_position",
            PricePositionOf(last.args[1], last.args[2], last.args[3]))

GetCandlePatterns ==
    /\ IsDue("get_candle_patterns")
    /\ AnalyzerReturns("get_candle_patterns", GetCandlePatternsOf(last.args[1]))

CalculateRsi ==
    /\ IsDue("calculate_rsi")
    /\ AnalyzerReturns("calculate_rsi",
            CalculateRsiOf(last.args[1], last.args[2]))

FindSupportResistance ==
    /\ IsDue("find_support_resistance")
    /\ AnalyzerReturns("find_support_resistance",
            FindSupportResistanceOf(last.args[1], last.args[2]))

NextAnalyzer ==
    \/ GenerateSignal
    \/ GetTrend
    \/ GetPricePosition
    \/ GetCandlePatterns
    \/ CalculateRsi
    \/ FindSupportResistance

SpecAnalyzer == InitAnalyzer /\ [][NextAnalyzer]_vars

\* ---------------------------------------------------------------- state
\* TradingJournal(balance=10000) constructed over an empty data folder
Init ==
    /\ journal_file = NoFile
    /\ balance_file = NoFile
    /\ trades = LoadTrades(journal_file)
    /\ balance = LoadBalance(balance_file, INITIAL_BALANCE)
    /\ trade_counter = DocLen(trades) + 1
    /\ alive = TRUE
    /\ starts = 1
    /\ bot = BotIdle
    /\ web = WebIdle
    /\ base = INITIAL_BALANCE
    /\ issued = <<>>
    /\ last = [op |-> "init", args |-> <<>>, ret |-> None]

OpenTrade(pair, direction, entry_price, lot_size) ==
    /\ alive
    /\ LET r == OpenTradeOn(Current, pair, direction, entry_price, lot_size)
       IN  /\ Install(r.L)
           /\ issued' = Append(issued, r.ret)
           /\ last' = [op |-> "open_trade", args |-> <<pair, direction>>,
                       ret |-> r.ret]
    /\ UNCHANGED <<procVars, hostVars, base>>

CloseTrade(trade_id, exit_price, reason) ==
    /\ alive
    /\ LET r == CloseTradeOn(Current, trade_id, exit_price, reason)
       IN  /\ Install(r.L)
           /\ last' = [op |-> "close_trade", args |-> <<trade_id>>,
                       ret |-> r.ret]
    /\ UNCHANGED <<procVars, hostVars, base, issued>>

CloseAllAtMarket(current_prices) ==
    /\ alive
    /\ LET r == CloseAllFrom(Current, current_prices, 1, <<>>)
       IN  /\ Install(r.L)
           /\ last' = [op |-> "close_all_at_market", args |-> <<>>,
                       ret |-> r.ret]
    /\ UNCHANGED <<procVars, hostVars, base, issued>>

\* maxCounter is the specification's bound on trade_counter
OnSignal(pair, signal, price, maxCounter) ==
    /\ alive
    /\ LET r == OnSignalOn(Current, pair, signal, price)
       IN  /\ r.L.counter <= maxCounter + 1
           /\ Install(r.L)
           /\ issued' = IF r.ret # None THEN Append(issued, r.ret) ELSE issued
           /\ last' = [op |-> "on_signal", args |-> <<pair, signal, price>>,
                       ret |-> r.ret]
    /\ UNCHANGED <<procVars, hostVars, base>>

Reset(new_balance) ==
    /\ alive
    /\ Install(ResetOn(Current, new_balance))
    /\ base' = new_balance
    /\ last' = [op |-> "reset", args |-> <<new_balance>>, ret |-> None]
    /\ UNCHANGED <<procVars, hostVars, issued>>

GetStats ==
    /\ alive
    /\ last' = [op |-> "get_stats", args |-> <<>>, ret |-> StatsOf(Current)]
    /\ UNCHANGED <<memVars, fileVars, procVars, hostVars, base, issued>>

\* GET /api/stats of the web app, over the files the journal wrote
AppGetStats ==
    /\ last' = [op |-> "app_get_stats", args |-> <<>>,
                ret |-> AppStatsOf(journal_file, balance_file)]
    /\ UNCHANGED <<memVars, fileVars, procVars, hostVars, base, issued>>

\* the IDs a caller can name: those issued so far, those of the trades in
\* the list and the next one
TradeIds ==
    {TradeId(n) : n \in 2..trade_counter}
        \cup {trades.trades[i].id : i \in 1..Len(trades.trades)}
CloseReasons == {"MANUAL"}

\* ------------------------------------------------ the ledger, every call
Next ==
    \/ \E p \in Pairs, d \in Directions, e \in RoundTripPrices :
            trade_counter <= MaxLedger /\ OpenTrade(p, d, e, DEFAULT_LOT)
    \/ \E id \in TradeIds, x \in RoundTripPrices, r \in CloseReasons :
            CloseTrade(id, x, r)
    \/ \E cp \in PriceMaps(RoundTripPrices) : CloseAllAtMarket(cp)
    \/ \E p \in Pairs, s \in Signals, x \in RoundTripPrices :
            OnSignal(p, s, x, MaxLedger)
    \/ \E b \in ResetBalances : Reset(b)

Spec == Init /\ [][Next]_vars

\* ------------------------- the bot: the ledger driven by on_signal alone
NextTrader ==
    \E p \in Pairs, s \in Signals, x \in Prices : OnSignal(p, s, x, MaxTrades)

SpecTrader == Init /\ [][NextTrader]_vars

\* ------- the journal's opens and closes on the full price and lot grid
NextNumeric ==
    \/ \E p \in Pairs, d \in Directions, e \in Prices, l \in Lots :
            trade_counter <= MaxNumeric /\ OpenTrade(p, d, e, l)
    \/ \E id \in TradeIds, x \in Prices, r \in CloseReasons : CloseTrade(id, x, r)
    \/ \E cp \in PriceMaps(Prices) : CloseAllAtMarket(cp)

SpecNumeric == Init /\ [][NextNumeric]_vars

\* ---- the statistics after opens, closes and resets on one pair, entered
\* at 1.1000 and left at 1.1000 or 1.1050: a trade wins, loses or is flat
StatsPair == "EUR/USD"
StatsEntry == 1100000

NextStats ==
    \/ \E d \in Directions :
            trade_counter <= MaxStats /\ OpenTrade(StatsPair, d, StatsEntry, DEFAULT_LOT)
    \/ \E id \in TradeIds, x \in RoundTripPrices, r \in CloseReasons :
            CloseTrade(id, x, r)
    \/ \E b \in ResetBalances : Reset(b)
    \/ GetStats
    \/ AppGetStats

SpecStats == Init /\ [][NextStats]_vars

\* --------------------------------- the process stopped, and constructed again
\* the process stops between two calls
Stop ==
    /\ alive
    /\ alive' = FALSE
    /\ last' = [op |-> "stop", args |-> <<>>, ret |-> None]
    /\ UNCHANGED <<memVars, fileVars, hostVars, starts, base, issued>>

\* close_trade stopped between _save_balance and _save_trades: the trade is
\* closed and credited in memory, the balance file is written, the journal
\* file is not
CloseTradeKilled(trade_id, exit_price, reason) ==
    /\ alive
    /\ LET r == CloseTradeOn(Current, trade_id, exit_price, reason)
       IN  /\ r.ret # None
           /\ Install([r.L EXCEPT !.jfile = journal_file])
    /\ alive' = FALSE
    /\ last' = [op |-> "close_trade_killed", args |-> <<trade_id>>, ret |-> None]
    /\ UNCHANGED <<hostVars, starts, base, issued>>

\* reset stopped between _save_trades and _save_balance
ResetKilled(new_balance) ==
    /\ alive
    /\ Install([ResetOn(Current, new_balance) EXCEPT !.bfile = balance_file])
    /\ alive' = FALSE
    /\ last' = [op |-> "reset_killed", args |-> <<new_balance>>, ret |-> None]
    /\ UNCHANGED <<hostVars, starts, base, issued>>

\* TradingJournal.__init__ over the files the stopped process left
Restart ==
    /\ ~alive
    /\ starts < MaxStarts
    /\ alive' = TRUE
    /\ starts' = starts + 1
    /\ trades' = LoadTrades(journal_file)
    /\ balance' = LoadBalance(balance_file, INITIAL_BALANCE)
    /\ trade_counter' = DocLen(LoadTrades(journal_file)) + 1
    /\ issued' = <<>>
    /\ last' = [op |-> "init", args |-> <<>>, ret |-> None]
    /\ UNCHANGED <<fileVars, hostVars, base>>

NextCrash ==
    \/ \E p \in Pairs, d \in Directions, e \in RoundTripPrices :
            trade_counter <= MaxCrashTrades /\ OpenTrade(p, d, e, DEFAULT_LOT)
    \/ \E id \in TradeIds, x \in RoundTripPrices, r \in CloseReasons :
            CloseTrade(id, x, r)
    \/ \E b \in ResetBalances : Reset(b)
    \/ Stop
    \/ \E id \in TradeIds, x \in RoundTripPrices, r \in CloseReasons :
            CloseTradeKilled(id, x, r)
    \/ \E b \in ResetBalances : ResetKilled(b)
    \/ Restart

SpecCrash == Init /\ [][NextCrash]_vars

\* -- the bot's journal and the web app opening trades in the same files,
\* one call after the other: the app serves one request at a time and the
\* journal is called between two requests
NextShared ==
    \/ \E d \in Directions :
            /\ web.req[1].pc = "idle"
            /\ trade_counter <= MaxShared
            /\ OpenTrade(StatsPair, d, StatsEntry, DEFAULT_LOT)
    \/ \E d \in Directions :
            web.started < MaxRequests /\ AppOpenLoad(1, StatsPair, d, StatsEntry)
    \/ AppOpenSave(1)
    \/ web.req[1].pc = "idle" /\ Stop
    \/ Restart

SpecShared == Init /\ [][NextShared]_vars

\* ----------------- the web app serving requests in two threads at a time
NextApp ==
    \/ \E r \in Requests, p \in Pairs, d \in Directions, e \in RoundTripPrices :
            web.started < MaxRequests /\ AppOpenLoad(r, p, d, e)
    \/ \E r \in Requests : AppOpenSave(r)
    \/ \E r \in Requests, n \in 1..MaxRequests, x \in RoundTripPrices :
            web.started < MaxRequests /\ AppCloseLoad(r, TradeId(n), x)
    \/ \E r \in Requests : AppCloseLoadBalance(r)
    \/ \E r \in Requests : AppCloseSaveBalance(r)
    \/ \E r \in Requests : AppCloseSaveJournal(r)

SpecApp == Init /\ [][NextApp]_vars

\* ------------------------------------------- the bot's analysis cycles
\* Telegram is not configured: send_message returns False
NextBot ==
    \/ bot.cycles < MaxCycles /\ StartCycle
    \/ \E o \in Outcomes, m \in CycleMarkets(RoundTripPrices) :
            ProcessPair(o, m, FALSE)
    \/ EndCycle

SpecBot == Init /\ [][NextBot]_vars

\* the loop runs on its own: a cycle begun takes its next step
SpecBotLive ==
    SpecBot /\ WF_vars((\E o \in Outcomes, m \in CycleMarkets(RoundTripPrices) :
                            ProcessPair(o, m, FALSE))
                        \/ EndCycle)

\* ---- the bot's cycles at one price, with Telegram taking a message or not
NextNotify ==
    \/ bot.cycles < MaxNotifyCycles /\ StartCycle
    \/ \E o \in Outcomes, m \in CycleMarkets({StatsEntry}), dl \in BOOLEAN :
            ProcessPair(o, m, dl)
    \/ EndCycle

SpecNotify == Init /\ [][NextNotify]_vars

\* -- the trend and the signal: get_trend and generate_signal (all four
\* strategies on) called on their own, and by the bot in its cycles on every
\* market at one price, Telegram not configured
AllStrategies ==
    {[given |-> FALSE, dict |-> <<>>], [given |-> TRUE, dict |-> DefaultStrategies]}

InitSignals ==
    /\ journal_file = NoFile
    /\ balance_file = NoFile
    /\ trades = LoadTrades(journal_file)
    /\ balance = LoadBalance(balance_file, INITIAL_BALANCE)
    /\ trade_counter = DocLen(trades) + 1
    /\ alive = TRUE
    /\ starts = 1
    /\ bot = BotIdle
    /\ web = WebIdle
    /\ base = INITIAL_BALANCE
    /\ issued = <<>>
    /\ \/ last = [op |-> "init", args |-> <<>>, ret |-> None]
       \/ \E t \in Trends, p \in Positions, c \in Patterns, r \in RsiValues,
             s \in AllStrategies :
                last = Call("generate_signal", <<t, p, c, r, s>>)
       \/ \E price \in Prices, slow \in Prices, trend \in Prices, bars \in BarCounts :
                last = Call("get_trend", <<price, slow, trend, bars>>)

NextSignals ==
    \/ GenerateSignal
    \/ GetTrend
    \/ bot.cycles < MaxSignalCycles /\ StartCycle
    \/ \E o \in Outcomes, m \in Markets({StatsEntry}) : ProcessPair(o, m, FALSE)
    \/ EndCycle

SpecSignals == InitSignals /\ [][NextSignals]_vars

\* ======================================================== the claims
IsOpen(t) == t.status = "OPEN"
IsClosed(t) == t.status = "CLOSED"
OpenOn(ts, pair) == {i \in 1..Len(ts) : IsOpen(ts[i]) /\ ts[i].pair = pair}
OpenOnDir(ts, pair, direction) ==
    {i \in OpenOn(ts, pair) : ts[i].direction = direction}

\* C1: after any sequence of journal and trader calls the balance is the
\* initial balance (or the balance given to the last reset) plus the pnl of
\* the CLOSED trades.
C1_BalanceIsBasePlusClosedPnl ==
    balance = base + SumPnl(ClosedTrades(trades.trades))

\* C1 witness: after a reset, a trade was closed with a non-zero pnl.
C1_Witness ==
    /\ base # INITIAL_BALANCE
    /\ \E i \in 1..Len(trades.trades) :
            IsClosed(trades.trades[i]) /\ trades.trades[i].pnl # 0

C3_IdsStrictlyIncreasing ==
    \A i, j \in 1..Len(issued) :
        i < j => /\ IdNum(issued[i]) < IdNum(issued[j])
                 /\ issued[i] # issued[j]

\* C3 witness: two IDs were issued and a reset came between the two opens.
C3_Witness ==
    /\ Len(issued) = 2
    /\ Len(trades.trades) = 1
    /\ base # INITIAL_BALANCE
    /\ trades.trades[1].id = issued[2]

\* C4: close_trade on an ID with no OPEN trade (unknown, or already CLOSED)
\* returns None and leaves balance, trades and both files as they were.
C4_FailedCloseChangesNothing ==
    [][(last'.op = "close_trade"
            /\ \A i \in 1..Len(trades.trades) :
                    trades.trades[i].id = last'.args[1]
                        => ~IsOpen(trades.trades[i]))
        => /\ last'.ret = None
           /\ UNCHANGED <<trades, balance, trade_counter, journal_file,
                          balance_file>>]_vars

\* C4 witness: a close of an already CLOSED ID has returned None.
C4_Witness ==
    /\ last.op = "close_trade"
    /\ last.ret = None
    /\ \E i \in 1..Len(trades.trades) :
            /\ trades.trades[i].id = last.args[1]
            /\ IsClosed(trades.trades[i])
            /\ trades.trades[i].pnl # 0

\* what close may do to one trade: nothing, or OPEN -> CLOSED with only the
\* exit fields written
C5_TradeStep(t, u) ==
    \/ u = t
    \/ /\ IsOpen(t)
       /\ IsClosed(u)
       /\ [u EXCEPT !.status = t.status, !.exit_price = t.exit_price,
                    !.exit_reason = t.exit_reason, !.pips = t.pips,
                    !.pnl = t.pnl] = t

\* C5: a trade is created OPEN, goes to CLOSED at most once, never back, a
\* CLOSED trade never changes, and only reset removes trades.
C5_TradeLifecycle ==
    [][\/ last'.op = "reset"
       \/ LET old == trades.trades
              new == trades'.trades
          IN  /\ Len(new) >= Len(old)
              /\ \A i \in 1..Len(old) :
                    /\ C5_TradeStep(old[i], new[i])
                    /\ IsClosed(old[i]) => new[i] = old[i]
              /\ \A i \in (Len(old) + 1)..Len(new) : IsOpen(new[i])]_vars

\* C5 witness: close_all_at_market has closed a trade while another trade,
\* closed earlier by close_trade, is still in the list.
C5_Witness ==
    /\ last.op = "close_all_at_market"
    /\ last.ret # <<>>
    /\ \E i \in 1..Len(trades.trades) :
            /\ IsClosed(trades.trades[i])
            /\ trades.trades[i].exit_reason = "MANUAL"

\* C6 as written: whenever the process may stop between two file writes,
\* the persisted balance is the initial (or last reset) balance plus the pnl
\* of the persisted CLOSED trades, so no persisted trade is OPEN with its pnl
\* already in the persisted balance.
C6_PersistedCloseIsAtomic ==
    LoadBalance(balance_file, INITIAL_BALANCE) =
        base + SumPnl(ClosedTrades(LoadTrades(journal_file).trades))

\* C7: driven by on_signal alone from an empty ledger, at most one trade is
\* OPEN per pair, whatever its direction.
C7_AtMostOneOpenPerPair ==
    \A p \in Pairs : Cardinality(OpenOn(trades.trades, p)) <= 1

\* C7 witness: a reversal has happened on one pair and both pairs hold an
\* OPEN trade.
C7_Witness ==
    /\ \A p \in Pairs : Cardinality(OpenOn(trades.trades, p)) = 1
    /\ \E i \in 1..Len(trades.trades) :
            /\ IsClosed(trades.trades[i])
            /\ trades.trades[i].exit_reason = "REVERSED"

C9_HoldChangesNothing ==
    [][(last'.op = "on_signal" /\ last'.args[2] = "HOLD")
        => /\ last'.ret = None
           /\ UNCHANGED <<trades, balance, trade_counter, journal_file,
                          balance_file, issued>>]_vars

\* C9 witness: a HOLD arrived for a pair holding an OPEN trade.
C9_Witness ==
    /\ last.op = "on_signal"
    /\ last.args[2] = "HOLD"
    /\ OpenOn(trades.trades, last.args[1]) # {}

Abs(x) == IF x < 0 THEN 0 - x ELSE x

\* the signed price move of a trade, in 1e-6
C10_Move(t) ==
    IF t.direction = "BUY" THEN t.exit_price - t.entry_price
    ELSE t.entry_price - t.exit_price

\* pips is the move x 10000 to the nearest tenth, pnl is pips x lot x 10 to
\* the nearest cent; the web app computes the same pips, and the same pnl
\* at lot 0.01
C10_Arithmetic(t) ==
    /\ 2 * Abs(t.pips * PriceScale - C10_Move(t) * PIP_FACTOR * 10) <= PriceScale
    /\ 2 * Abs(t.pnl * 10 * 1000 - t.pips * t.lot_size * 10 * 100) <= 10 * 1000
    /\ AppPips(t.direction, t.entry_price, t.exit_price) = t.pips
    /\ t.lot_size = DEFAULT_LOT => AppPnl(t.pips) = t.pnl
    /\ (/\ t.direction = "BUY"
        /\ t.entry_price = 1100000
        /\ t.exit_price = 1105000
        /\ t.lot_size = DEFAULT_LOT) => (t.pips = 500 /\ t.pnl = 500)

\* C10: every close leaves pips and pnl as the rounded products above, and
\* a successful close_trade raises the balance by exactly the trade's pnl.
C10_CloseArithmetic ==
    [][/\ \A i \in 1..Len(trades'.trades) :
             IsClosed(trades'.trades[i]) => C10_Arithmetic(trades'.trades[i])
       /\ (last'.op = "close_trade" /\ last'.ret # None)
            => /\ balance' = balance + last'.ret[1].pnl
               /\ \E i \in 1..Len(trades.trades) :
                     /\ IsOpen(trades.trades[i])
                     /\ trades'.trades[i] = last'.ret[1]]_vars

\* C10 witness: BUY 1.1000 -> 1.1050 at lot 0.01 was closed with pips 50.0
\* and pnl 5.00, and the balance is 10005.00.
C10_Witness ==
    /\ last.op = "close_trade"
    /\ last.ret # None
    /\ last.ret[1].direction = "BUY"
    /\ last.ret[1].entry_price = 1100000
    /\ last.ret[1].exit_price = 1105000
    /\ last.ret[1].lot_size = DEFAULT_LOT
    /\ last.ret[1].pips = 500
    /\ last.ret[1].pnl = 500
    /\ balance = INITIAL_BALANCE + 500

\* C11 as written: ledger mutations on the shared files are serialized, so
\* when no request is in flight every opened trade is in the persisted
\* journal, every successful close has closed a trade of its own, and the
\* persisted balance holds each CLOSED trade's pnl exactly once.
C11_NoLostUpdate ==
    (\A r \in Requests : web.req[r].pc = "idle") =>
        LET doc == AppLoadJournal(journal_file)
        IN  /\ Len(doc.trades) = web.opened
            /\ Len(ClosedTrades(doc.trades)) = web.closed
            /\ AppLoadBalance(balance_file) =
                  INITIAL_BALANCE + SumPnl(ClosedTrades(doc.trades))

\* the process_pair calls of the cycle that ran to their end
C12_Done(tried) == SelectSeq(tried, LAMBDA e : e.outcome = "ok")

\* C12 (safety): whatever failed before, the loop reaches every pair in the
\* list's order; the results are those of the non-failing pairs, in order;
\* their signals and prices are kept; the cycle returns exactly them after
\* the last pair.
C12_Safe ==
    /\ bot.at # 0 => Len(bot.tried) = bot.at - 1
    /\ Len(bot.tried) <= Len(BotPairs)
    /\ \A k \in 1..Len(bot.tried) : bot.tried[k].pair = BotPairs[k]
    /\ Len(bot.results) = Len(C12_Done(bot.tried))
    /\ \A k \in 1..Len(bot.results) :
          /\ bot.results[k].pair = C12_Done(bot.tried)[k].pair
          /\ bot.last_signals[bot.results[k].pair] = bot.results[k].signal
          /\ bot.results[k].pair \in DOMAIN bot.prices
          /\ bot.prices[bot.results[k].pair] = bot.results[k].price
    /\ last.op = "run_analysis_cycle" =>
          /\ Len(bot.tried) = Len(BotPairs)
          /\ last.ret = bot.results

\* C12: a failing pair is skipped alone, and every cycle begun comes to its
\* return.
C12_CycleSkipsOnlyFailingPair ==
    /\ []C12_Safe
    /\ (bot.at # 0) ~> (bot.at = 0 /\ last.op = "run_analysis_cycle")

\* C12 witness: the first pair failed in on_signal after its notification,
\* the second pair was processed, opened a trade, and is the one result.
C12_Witness ==
    /\ last.op = "run_analysis_cycle"
    /\ bot.tried[1].outcome = "trade_error"
    /\ bot.tried[2].outcome = "ok"
    /\ Len(last.ret) = 1
    /\ last.ret[1].pair = BotPairs[2]
    /\ bot.sent = <<<<BotPairs[1], "BUY">>, <<BotPairs[2], "SELL">>>>
    /\ OpenOn(trades.trades, BotPairs[1]) = {}
    /\ OpenOnDir(trades.trades, BotPairs[2], "SELL") # {}

\* the table of C13, in halves of a point
C13_TrendPoints(t) ==
    CASE t = "STRONG_UPTREND" -> 2
      [] t = "WEAK_UPTREND" -> 2
      [] t = "STRONG_DOWNTREND" -> -2
      [] t = "WEAK_DOWNTREND" -> -2
      [] t = "RANGE_BOUND" -> 0
C13_PositionPoints(p) ==
    CASE p = "AT_SUPPORT" -> 2
      [] p = "NEAR_SUPPORT" -> 1
      [] p = "AT_RESISTANCE" -> -2
      [] p = "NEAR_RESISTANCE" -> 0
      [] p = "NEUTRAL" -> 0
C13_PatternPoints(c) ==
    IF c \in {"BULLISH_HAMMER", "INVERTED_HAMMER", "BULLISH_ENGULFING",
              "MORNING_STAR", "THREE_WHITE_SOLDIERS"} THEN 2
    ELSE IF c \in {"SHOOTING_STAR", "BEARISH_ENGULFING", "EVENING_STAR"} THEN -2
    ELSE 0
C13_RsiPoints(r) ==
    IF r[2] # 0 /\ r[1] < 35 * r[2] THEN 1
    ELSE IF r[2] # 0 /\ r[1] > 65 * r[2] THEN -1
    ELSE 0

\* the strategy a reason string belongs to
C13_ReasonOf(reason) ==
    IF reason \in {"Uptrend", "Downtrend"} THEN "trend"
    ELSE IF reason \in {"At support", "Near support", "At resistance"}
    THEN "support_resistance"
    ELSE IF reason \in {"RSI oversold", "RSI overbought"} THEN "rsi"
    ELSE "candles"

C13_AllEnabled(s) ==
    ~s.given \/ (DOMAIN s.dict = StrategyKeys /\ \A k \in StrategyKeys : s.dict[k])

\* C13: with all strategies enabled the score is the sum of the four tabled
\* contributions and reasons holds one entry per non-zero contribution, in
\* the order trend, position, pattern, rsi.
C13_ScoreIsSumOfTable ==
    (HasReturned("generate_signal") /\ C13_AllEnabled(last.args[5])) =>
        LET pts == <<C13_TrendPoints(last.args[1]),
                     C13_PositionPoints(last.args[2]),
                     C13_PatternPoints(last.args[3]),
                     C13_RsiPoints(last.args[4])>>
            keys == <<"trend", "support_resistance", "candles", "rsi">>
            due == SelectSeq(keys, LAMBDA k :
                       \E n \in 1..4 : keys[n] = k /\ pts[n] # 0)
            score == last.ret[2][2]
            reasons == last.ret[2][3]
        IN  /\ score = pts[1] + pts[2] + pts[3] + pts[4]
            /\ Len(reasons) = Len(due)
            /\ \A n \in 1..Len(reasons) : C13_ReasonOf(reasons[n]) = due[n]

\* C13 witness: STRONG_UPTREND, AT_SUPPORT, BULLISH_ENGULFING, rsi 30 with
\* strategies None gave BUY, score 3.5 and four reasons.
C13_Witness ==
    /\ HasReturned("generate_signal")
    /\ last.args = <<"STRONG_UPTREND", "AT_SUPPORT", "BULLISH_ENGULFING",
                     Number(30), [given |-> FALSE, dict |-> <<>>]>>
    /\ last.ret[2] = <<"BUY", 7, <<"Uptrend", "At support",
                                  "BULLISH_ENGULFING", "RSI oversold">>>>

\* C14: BUY exactly when the score is >= 2, SELL exactly when it is <= -2,
\* HOLD otherwise; the score is a multiple of 0.5 between -3.5 and 3.5.
C14_SignalFollowsScore ==
    HasReturned("generate_signal") =>
        LET signal == last.ret[2][1]
            score == last.ret[2][2]
        IN  /\ score \in -7..7
            /\ signal = "BUY" <=> score >= 4
            /\ signal = "SELL" <=> score <= -4
            /\ signal = "HOLD" <=> (-4 < score /\ score < 4)

\* C14 witness: a score of exactly 2 gave BUY (and the four-strategy score
\* of exactly -2 is SELL by the same mapping).
C14_Witness ==
    /\ HasReturned("generate_signal")
    /\ last.ret[2][2] = 4
    /\ last.ret[2][1] = "BUY"
    /\ GenerateSignalOf("WEAK_DOWNTREND", "AT_RESISTANCE", "NONE", Number(50),
                        [given |-> FALSE, dict |-> <<>>])[1] = "SELL"

C15_Disabled(s, key) == s.given /\ (key \notin DOMAIN s.dict \/ ~s.dict[key])

\* C15: a disabled strategy has no influence: the call gives the same
\* signal, score and reasons for every other value of that strategy's
\* input, and holds no reason of that strategy.
C15_DisabledHasNoInfluence ==
    HasReturned("generate_signal") =>
        LET a == last.args
            out == last.ret[2]
        IN  /\ C15_Disabled(a[5], "trend") =>
                  \A t \in Trends : GenerateSignalOf(t, a[2], a[3], a[4], a[5]) = out
            /\ C15_Disabled(a[5], "support_resistance") =>
                  \A p \in Positions : GenerateSignalOf(a[1], p, a[3], a[4], a[5]) = out
            /\ C15_Disabled(a[5], "candles") =>
                  \A c \in Patterns : GenerateSignalOf(a[1], a[2], c, a[4], a[5]) = out
            /\ C15_Disabled(a[5], "rsi") =>
                  \A r \in RsiValues : GenerateSignalOf(a[1], a[2], a[3], r, a[5]) = out
            /\ \A k \in StrategyKeys : C15_Disabled(a[5], k) =>
                  \A n \in 1..Len(out[3]) : C13_ReasonOf(out[3][n]) # k

\* C15 witness: trend switched off (its key missing from the dict) on a
\* STRONG_UPTREND call whose other three strategies all contribute.
C15_Witness ==
    /\ HasReturned("generate_signal")
    /\ last.args[1] = "STRONG_UPTREND"
    /\ last.args[5].given
    /\ DOMAIN last.args[5].dict = StrategyKeys \ {"trend"}
    /\ last.ret[2] = <<"BUY", 5, <<"At support", "MORNING_STAR", "RSI oversold">>>>

\* C16: exactly one of the five trend values is returned, the one the
\* first-match order gives: price == EMA_trend is RANGE_BOUND, and
\* price > EMA_trend with EMA_slow == EMA_trend is WEAK_UPTREND.  EMA_trend
\* is the 200-EMA for 200 closes or more and EMA_slow for fewer.
C16_TrendIsTotalFirstMatch ==
    HasReturned("get_trend") =>
        LET price == last.args[1]
            slow == last.args[2]
            trend == IF last.args[4] >= ema_trend THEN last.args[3] ELSE slow
            ret == last.ret[2]
        IN  /\ ret \in Trends
            /\ ret = "STRONG_UPTREND" <=> (price > trend /\ slow > trend)
            /\ ret = "WEAK_UPTREND" <=> (price > trend /\ slow <= trend)
            /\ ret = "STRONG_DOWNTREND" <=> (price < trend /\ slow < trend)
            /\ ret = "WEAK_DOWNTREND" <=> (price < trend /\ slow >= trend)
            /\ ret = "RANGE_BOUND" <=> price = trend

\* C16 witness: price above EMA_trend with EMA_slow equal to EMA_trend was
\* classified WEAK_UPTREND.
C16_Witness ==
    /\ HasReturned("get_trend")
    /\ last.args[1] > last.args[3]
    /\ last.args[2] = last.args[3]
    /\ last.ret[2] = "WEAK_UPTREND"

\* C17: NEUTRAL when a nearest level is undefined; otherwise the first
\* match of sup_dist < 0.5, res_dist < 0.5, sup_dist < 2, res_dist < 2 on
\* the signed percentages, so a price below the support is AT_SUPPORT.
C17_PositionIsFirstMatch ==
    HasReturned("get_price_position") =>
        LET price == last.args[1]
            sup == last.args[2]
            res == last.args[3]
            ret == last.ret[2]
            defined == sup # NoLevel /\ res # NoLevel
            \* percentages times the price: x < 0.5 is 2 * x * price < price
            sup_dist == (price - sup) * 100
            res_dist == (res - price) * 100
            at_sup == 2 * sup_dist < price
            at_res == 2 * res_dist < price
            near_sup == sup_dist < 2 * price
            near_res == res_dist < 2 * price
        IN  /\ ~defined => ret = "NEUTRAL"
            /\ defined =>
                 /\ ret = "AT_SUPPORT" <=> at_sup
                 /\ ret = "AT_RESISTANCE" <=> (~at_sup /\ at_res)
                 /\ ret = "NEAR_SUPPORT" <=> (~at_sup /\ ~at_res /\ near_sup)
                 /\ ret = "NEAR_RESISTANCE" <=>
                        (~at_sup /\ ~at_res /\ ~near_sup /\ near_res)
                 /\ ret = "NEUTRAL" <=>
                        (~at_sup /\ ~at_res /\ ~near_sup /\ ~near_res)
                 /\ price < sup => ret = "AT_SUPPORT"

\* C17 witness: a price below its nearest support, with a resistance
\* defined, was classified AT_SUPPORT.
C17_Witness ==
    /\ HasReturned("get_price_position")
    /\ last.args[2] # NoLevel
    /\ last.args[3] # NoLevel
    /\ last.args[1] < last.args[2]
    /\ last.ret[2] = "AT_SUPPORT"

\* the spec's nine conditions on the last 1, 2 or 3 bars of a series of at
\* least 3 bars
C18_Holds(name, data) ==
    LET b == data[Len(data)]
        p == data[Len(data) - 1]
        q == data[Len(data) - 2]
        body == AbsDiff(b.close, b.open)
        upper == b.high - Max(b.open, b.close)
        lower == Min(b.open, b.close) - b.low
        bull(x) == x.close > x.open
        bear(x) == x.close < x.open
        small == 10 * AbsDiff(p.close, p.open) < 3 * AbsDiff(q.close, q.open)
    IN  CASE name = "DOJI" -> upper > 3 * body /\ lower > 3 * body
          [] name = "BULLISH_HAMMER" ->
                lower > 2 * body /\ 2 * upper < body /\ bull(b)
          [] name = "INVERTED_HAMMER" ->
                upper > 2 * body /\ 2 * lower < body /\ bull(b)
          [] name = "SHOOTING_STAR" ->
                upper > 2 * body /\ 2 * lower < body /\ bear(b)
          [] name = "BULLISH_ENGULFING" ->
                bull(b) /\ bear(p) /\ b.close > p.open /\ b.open < p.close
          [] name = "BEARISH_ENGULFING" ->
                bear(b) /\ bull(p) /\ b.close < p.open /\ b.open > p.close
          [] name = "MORNING_STAR" ->
                bear(q) /\ small /\ bull(b) /\ 2 * b.close > q.open + q.close
          [] name = "EVENING_STAR" ->
                bull(q) /\ small /\ bear(b) /\ 2 * b.close < q.open + q.close
          [] name = "THREE_WHITE_SOLDIERS" ->
                /\ bull(q) /\ bull(p) /\ bull(b)
                /\ p.close > q.close
                /\ b.close > p.close

\* C18 as written: on a series long enough for every check (3 bars or more)
\* the result is the earliest pattern of the fixed order whose condition
\* holds on the last 1, 2 or 3 bars, or NONE when none holds.
C18_FirstMatchOnLastThreeBars ==
    (HasReturned("get_candle_patterns") /\ Len(last.args[1]) >= 3) =>
        LET data == last.args[1]
            ret == last.ret[2]
            hits == {k \in 1..Len(PatternOrder) : C18_Holds(PatternOrder[k], data)}
        IN  /\ hits = {} => ret = "NONE"
            /\ hits # {} =>
                  \E k \in hits : /\ ret = PatternOrder[k]
                                  /\ \A j \in hits : k <= j

\* C19 as written: on every series of 1 or more bars the matcher returns a
\* pattern name or NONE and never fails.
C19_MatcherNeverFails ==
    (HasReturned("get_candle_patterns") /\ Len(last.args[1]) >= 1) =>
        last.ret[2] \in Patterns

\* C20 as written: rsi returns 50 whenever the series has fewer than
\* period + 1 values.
C20_ShortSeriesIsNeutral ==
    (HasReturned("calculate_rsi") /\ Len(last.args[1]) < last.args[2] + 1) =>
        last.ret[2] = Number(50)

\* C21 as written: for every close series of at least period + 1 values
\* calculate_rsi returns a number in [0, 100], never NaN; it is 100 when the
\* losses of the last period values sum to 0 (all gains, or a flat window)
\* and 0 when the gains sum to 0 and the losses do not.
C21_RsiDefinedInRange ==
    (HasReturned("calculate_rsi") /\ Len(last.args[1]) >= last.args[2] + 1) =>
        LET close == last.args[1]
            period == last.args[2]
            rsi == last.ret[2]
            gain == SumGain(close, Len(close) - period + 1, Len(close))
            loss == SumLoss(close, Len(close) - period + 1, Len(close))
        IN  /\ ~IsNaN(rsi)
            /\ ~Less(rsi, Number(0))
            /\ ~Less(Number(100), rsi)
            /\ loss = 0 => rsi = Number(100)
            /\ (gain = 0 /\ loss > 0) => rsi[1] = 0

\* the bins of cluster_levels that hold the candidate l
C22_BinsOf(levels, num_clusters, l) ==
    {i \in 0..(num_clusters - 1) :
        \E k \in 1..Len(BinLevels(levels, num_clusters, i)) :
            BinLevels(levels, num_clusters, i)[k] = l}

\* one side of C22: with at least num_clusters candidates every candidate,
\* the maximum and equal candidates included, is in exactly one bin, so the
\* side has at least one level; the levels are ascending, at most 3
C22_Side(levels, num_clusters, result) ==
    Len(levels) >= num_clusters =>
        /\ \A k \in 1..Len(levels) :
                Cardinality(C22_BinsOf(levels, num_clusters, levels[k])) = 1
        /\ Len(result) >= 1
        /\ \A k \in 1..(Len(result) - 1) : Less(result[k], result[k + 1])
        /\ Len(result) <= 3

\* C22 as written: when a side has at least num_clusters candidate extrema
\* every candidate falls in exactly one of the equal-width bins over
\* [min, max], each non-empty bin yields its mean, so the side has at least
\* one level, and the levels are ascending, at most 3 per side.
C22_EveryCandidateIsBinned ==
    HasReturned("find_support_resistance") =>
        LET close == last.args[1]
            num_clusters == last.args[2] \div 2
        IN  /\ C22_Side(LocalMins(close), num_clusters, last.ret[2].support)
            /\ C22_Side(LocalMaxs(close), num_clusters, last.ret[2].resistance)

\* how often the value v occurs in the sequence s
C23_Count(s, v) == Cardinality({k \in 1..Len(s) : s[k] = v})

\* one side of C23: with fewer candidates than clusters the side holds the
\* raw candidates, each as often as it was found, in ascending order
C23_Side(levels, num_clusters, result) ==
    Len(levels) < num_clusters =>
        /\ Len(result) = Len(levels)
        /\ \A k \in 1..Len(levels) :
                C23_Count(result, Number(levels[k])) = C23_Count(levels, levels[k])
        /\ \A k \in 1..(Len(result) - 1) : ~Less(result[k + 1], result[k])

C24_Closed(ts) == {i \in 1..Len(ts) : ts[i].status = "CLOSED"}
C24_Wins(ts) == {i \in C24_Closed(ts) : ts[i].pnl > 0}
C24_Losses(ts) == {i \in C24_Closed(ts) : ts[i].pnl < 0}

RECURSIVE C24_Sum(_, _)
C24_Sum(ts, S) ==
    IF S = {} THEN 0
    ELSE LET i == CHOOSE i \in S : TRUE IN ts[i].pnl + C24_Sum(ts, S \ {i})

\* the counts, the total and the balance of a statistics report over the
\* trade list ts and the balance bal
C24_Counts(stats, ts, bal) ==
    /\ stats.total_trades = Cardinality(C24_Closed(ts))
    /\ stats.wins = Cardinality(C24_Wins(ts))
    /\ stats.losses = Cardinality(C24_Losses(ts))
    /\ stats.wins + stats.losses <= stats.total_trades
    /\ stats.total_pnl = C24_Sum(ts, C24_Closed(ts))
    /\ stats.balance = bal
    /\ C24_Closed(ts) = {} => stats.win_rate = 0

\* win_rate (in tenths of a percent) is wins / total x 100 exactly
C24_ExactRate(stats, ts) ==
    C24_Closed(ts) # {} =>
        stats.win_rate * Cardinality(C24_Closed(ts))
            = Cardinality(C24_Wins(ts)) * 100 * 10

\* win_rate is the multiple of 0.1 nearest to wins / total x 100
C24_RoundedRate(stats, ts) ==
    C24_Closed(ts) # {} =>
        LET total == Cardinality(C24_Closed(ts))
            exact == Cardinality(C24_Wins(ts)) * 100 * 10
        IN  /\ 2 * (stats.win_rate * total - exact) <= total
            /\ 2 * (exact - stats.win_rate * total) <= total

\* C24 as written: get_stats of the journal and of the web app report the
\* CLOSED trades' count, wins, losses and pnl sum, the balance, and
\* win_rate = wins / total x 100 (0 without a closed trade).
C24_StatsWithExactRate ==
    /\ last.op = "get_stats" =>
            /\ C24_Counts(last.ret, trades.trades, balance)
            /\ C24_ExactRate(last.ret, trades.trades)
    /\ last.op = "app_get_stats" =>
            /\ C24_Counts(last.ret, trades.trades, balance)
            /\ C24_ExactRate(last.ret, trades.trades)

\* C24 amended: the same with win_rate rounded to one decimal.
C24_StatsCountClosedTrades ==
    /\ last.op = "get_stats" =>
            /\ C24_Counts(last.ret, trades.trades, balance)
            /\ C24_RoundedRate(last.ret, trades.trades)
    /\ last.op = "app_get_stats" =>
            /\ C24_Counts(last.ret, trades.trades, balance)
            /\ C24_RoundedRate(last.ret, trades.trades)

\* C24 witness: the journal reports three closed trades, one of them a win
\* and one a loss, next to an OPEN trade: win_rate 33.3.
C24_Witness ==
    /\ last.op = "get_stats"
    /\ Len(trades.trades) = 4
    /\ Cardinality(C24_Closed(trades.trades)) = 3
    /\ last.ret.wins = 1
    /\ last.ret.losses = 1
    /\ last.ret.win_rate = 333
    /\ last.ret.open_trades = 1

\* body_size = body if body > 0.0001 else 0.0001, in 1e-6
C25_BodySize(body) == IF body > 100 THEN body ELSE 100

\* the single-candle patterns of the last bar, in the matcher's order, with
\* the shadows compared against multiples of the floored body
C25_SinglePatterns(data) ==
    LET o == Bar(data, 1).open
        h == Bar(data, 1).high
        l == Bar(data, 1).low
        c == Bar(data, 1).close
        body_size == C25_BodySize(AbsDiff(c, o))
        upper_shadow == h - Max(o, c)
        lower_shadow == Min(o, c) - l
    IN  (IF upper_shadow > body_size * 3 /\ lower_shadow > body_size * 3
         THEN <<"DOJI">> ELSE <<>>)
        \o (IF lower_shadow > body_size * 2 /\ 2 * upper_shadow < body_size /\ c > o
            THEN <<"BULLISH_HAMMER">> ELSE <<>>)
        \o (IF upper_shadow > body_size * 2 /\ 2 * lower_shadow < body_size /\ c > o
            THEN <<"INVERTED_HAMMER">> ELSE <<>>)
        \o (IF upper_shadow > body_size * 2 /\ 2 * lower_shadow < body_size /\ c < o
            THEN <<"SHOOTING_STAR">> ELSE <<>>)

\* C25 as written: the single-candle comparisons use the body floored to
\* 0.0001, so the matcher returns a single-candle pattern exactly when the
\* comparisons against the floored body pick it first.
C25_RatiosUseFlooredBody ==
    (/\ HasReturned("get_candle_patterns")
     /\ Len(last.args[1]) >= 2
     /\ last.ret[2] # "IndexError") =>
        LET single == C25_SinglePatterns(last.args[1])
            ret == last.ret[2]
        IN  /\ single # <<>> => ret = single[1]
            /\ ret \in {"DOJI", "BULLISH_HAMMER", "INVERTED_HAMMER",
                        "SHOOTING_STAR"}
                    => (single # <<>> /\ ret = single[1])

\* C26 as written: through stops and new TradingJournal objects over the
\* saved files, after any opens, closes and resets, no two trades of the
\* trade list have the same ID.
C26_IdsUniqueAcrossRestart ==
    \A i, j \in 1..Len(trades.trades) :
        i # j => trades.trades[i].id # trades.trades[j].id

\* C27 as written: with the journal and the web app opening trades one
\* after the other in the same journal document, the trades of the document
\* have distinct IDs, the document carries a next_id greater than the number
\* of every ID in it, and the app's open never fails for lack of next_id.
C27_SharedJournalKeepsNextId ==
    /\ journal_file.exists =>
            LET doc == journal_file.doc
            IN  /\ \A i, j \in 1..Len(doc.trades) :
                        i # j => doc.trades[i].id # doc.trades[j].id
                /\ doc.next_id # NoKey
                /\ \A i \in 1..Len(doc.trades) :
                        IdNum(doc.trades[i].id) < doc.next_id
    /\ ~(last.op = "app_open_trade" /\ last.ret = None)

\* ---------------------------------------------------------------- C28
\* the processed signals of one pair, oldest first
C28_Processed(pair) ==
    SelectSeq(bot.log, LAMBDA e : e.pair = pair)

\* the k-th processed signal of the pair follows a BUY or a SELL
C28_AfterTrade(pair, k) ==
    /\ k > 1
    /\ C28_Processed(pair)[k - 1].signal \in {"BUY", "SELL"}

\* C28: over the processed signals of a pair (the process_pair calls that
\* returned a result), send_signal is called for every BUY and every SELL
\* and for a HOLD exactly when the pair's previous processed signal was BUY
\* or SELL, so never for a first HOLD nor for a HOLD after a HOLD; and right
\* after a BUY or SELL is processed the pair has an OPEN trade in the
\* signal's direction, whether or not Telegram took the message
C28_NotifyOnTradeSignalsAndFirstHold ==
    /\ \A pair \in Pairs : \A k \in 1..Len(C28_Processed(pair)) :
          LET e == C28_Processed(pair)[k]
          IN  /\ e.notified <=> \/ e.signal \in {"BUY", "SELL"}
                                \/ e.signal = "HOLD" /\ C28_AfterTrade(pair, k)
              /\ e.delivered => e.notified
    /\ (last.op = "process_pair" /\ last.args[2] = "ok"
            /\ last.ret[1].signal \in {"BUY", "SELL"})
          => \E i \in 1..Len(trades.trades) :
                /\ trades.trades[i].pair = last.ret[1].pair
                /\ trades.trades[i].direction = last.ret[1].signal
                /\ trades.trades[i].status = "OPEN"

\* a pair went BUY, HOLD, HOLD: the BUY was notified though Telegram did
\* not take the message, the first HOLD was notified, the second was not,
\* and the trade the BUY opened is still open
C28_Witness ==
    \E pair \in Pairs :
        LET P == C28_Processed(pair)
        IN  /\ Len(P) = 3
            /\ <<P[1].signal, P[2].signal, P[3].signal>> = <<"BUY", "HOLD", "HOLD">>
            /\ <<P[1].notified, P[2].notified, P[3].notified>> = <<TRUE, TRUE, FALSE>>
            /\ ~P[1].delivered
            /\ \E i \in 1..Len(trades.trades) :
                  /\ trades.trades[i].pair = pair
                  /\ trades.trades[i].direction = "BUY"
                  /\ trades.trades[i].status = "OPEN"

\* a first-ever HOLD was processed and not notified
C28_FirstHoldWitness ==
    \E pair \in Pairs :
        /\ Len(C28_Processed(pair)) = 1
        /\ C28_Processed(pair)[1].signal = "HOLD"
        /\ ~C28_Processed(pair)[1].notified

\* ---------------------------------------------------------------- C29
\* the signal goes against the trend: BUY in a downtrend, SELL in an uptrend
C29_Against(trend, signal) ==
    \/ signal = "BUY" /\ HasDowntrend(trend)
    \/ signal = "SELL" /\ HasUptrend(trend)

\* C29: with all four strategies on, generate_signal never returns BUY for
\* STRONG_DOWNTREND or WEAK_DOWNTREND nor SELL for STRONG_UPTREND or
\* WEAK_UPTREND, whatever the position, pattern and rsi; and every signal
\* the bot processed is not against the trend of its analysis, so a trade
\* that on_signal opened for it, in the signal's direction, is not either
C29_NoSignalAgainstTheTrend ==
    /\ (HasReturned("generate_signal")
            /\ \A key \in StrategyKeys : StrategyOn(last.args[5], key))
          => ~C29_Against(last.args[1], last.ret[2][1])
    /\ \A k \in 1..Len(bot.log) :
          LET e == bot.log[k]
          IN  /\ ~C29_Against(e.trend, e.signal)
              /\ e.opened # None =>
                    \E i \in 1..Len(trades.trades) :
                        /\ trades.trades[i].id = e.opened
                        /\ trades.trades[i].pair = e.pair
                        /\ trades.trades[i].direction = e.signal
                        /\ ~C29_Against(e.trend, trades.trades[i].direction)

\* the bot processed a pair in a downtrend with everything else bullish (at
\* the support, bullish candle, rsi oversold: 1.5 points) and held, and
\* opened a BUY for the other pair in an uptrend
C29_Witness ==
    /\ Len(bot.log) = 2
    /\ HasDowntrend(bot.log[1].trend)
    /\ bot.log[1].score = 3
    /\ bot.log[1].signal = "HOLD"
    /\ bot.log[1].opened = None
    /\ HasUptrend(bot.log[2].trend)
    /\ bot.log[2].signal = "BUY"
    /\ bot.log[2].opened # None

\* ---------------------------------------------------------------- C30
C30_WeakTrends == {"WEAK_UPTREND", "WEAK_DOWNTREND", "RANGE_BOUND"}

\* C30: on fewer than 200 closes get_trend compares the price with the slow
\* EMA alone and returns WEAK_UPTREND above it, WEAK_DOWNTREND below it and
\* RANGE_BOUND on it, never a STRONG trend; and no result the bot processed,
\* from the 100 bars it asks for, carries a STRONG trend
C30_ShortSeriesHaveNoStrongTrend ==
    /\ (HasReturned("get_trend") /\ last.args[4] < ema_trend) =>
          LET price == last.args[1]
              slow == last.args[2]
              ret == last.ret[2]
          IN  /\ ret \in C30_WeakTrends
              /\ ret = "WEAK_UPTREND" <=> price > slow
              /\ ret = "WEAK_DOWNTREND" <=> price < slow
              /\ ret = "RANGE_BOUND" <=> price = slow
    /\ \A k \in 1..Len(bot.log) : bot.log[k].trend \in C30_WeakTrends
    /\ (last.op = "process_pair" /\ last.ret # None)
          => last.ret[1].trend \in C30_WeakTrends

\* get_trend returned WEAK_UPTREND on 199 closes whose price and slow EMA are
\* both above the 200-EMA
C30_Witness ==
    /\ HasReturned("get_trend")
    /\ last.args[4] = ema_trend - 1
    /\ last.args[1] > last.args[3]
    /\ last.args[2] > last.args[3]
    /\ last.args[1] > last.args[2]
    /\ last.ret[2] = "WEAK_UPTREND"

=============================================================================
